---- MODULE Spec2Model ----
(***************************************************************************)
(* A model of the datadriven test-file reader (testDataReader), its        *)
(* directive tokenizer and the rewrite of a test file.                     *)
(*                                                                         *)
(* Text (a Go string or byte buffer) is a sequence of one-character        *)
(* strings, so that trimming, splitting into lines and the tokenizer's     *)
(* regular expression are computed character by character.                 *)
(***************************************************************************)
EXTENDS Integers, Sequences, FiniteSets, TLC

\* ------------------------------------------------------------------ text

NL == "\n"

\* unicode.IsSpace restricted to the characters a test file holds
SpaceChars == {" ", "\t", "\n", "\r", "\f"}

IsBlank(s) == \A i \in 1..Len(s) : s[i] \in SpaceChars

\* strings.TrimSpace
TrimSpace(s) ==
  IF IsBlank(s) THEN <<>>
  ELSE LET a == CHOOSE i \in 1..Len(s) :
                  /\ s[i] \notin SpaceChars
                  /\ \A j \in 1..(i-1) : s[j] \in SpaceChars
           b == CHOOSE i \in 1..Len(s) :
                  /\ s[i] \notin SpaceChars
                  /\ \A j \in (i+1)..Len(s) : s[j] \in SpaceChars
       IN SubSeq(s, a, b)

\* strings.HasPrefix
HasPrefix(s, p) == Len(s) >= Len(p) /\ SubSeq(s, 1, Len(p)) = p

\* strings.HasSuffix
HasSuffix(s, p) == Len(s) >= Len(p) /\ SubSeq(s, Len(s) - Len(p) + 1, Len(s)) = p

\* strings.TrimSuffix
TrimSuffix(s, p) == IF HasSuffix(s, p) THEN SubSeq(s, 1, Len(s) - Len(p)) ELSE s

\* strings.IndexByte, 1-based; 0 when c does not occur
IndexByte(s, c) ==
  IF \E i \in 1..Len(s) : s[i] = c
  THEN CHOOSE i \in 1..Len(s) : s[i] = c /\ \A j \in 1..(i-1) : s[j] # c
  ELSE 0

\* fmt.Fprintln(&buf, line)
Fprintln(buf, line) == buf \o line \o <<NL>>

RECURSIVE Split(_, _)
\* strings.Split(s, sep) for a one-character separator
Split(s, c) ==
  LET k == IndexByte(s, c)
  IN IF k = 0 THEN <<s>>
     ELSE <<SubSeq(s, 1, k - 1)>> \o Split(SubSeq(s, k + 1, Len(s)), c)

RECURSIVE JoinLines(_)
\* the bytes of a file whose lines are ls, each line ended by a newline
JoinLines(ls) == IF ls = <<>> THEN <<>> ELSE Fprintln(<<>>, Head(ls)) \o JoinLines(Tail(ls))

\* the "----" line
Separator == <<"-", "-", "-", "-">>

\* ------------------------------------------------------------ lineScanner

\* bufio.ScanLines drops one trailing carriage return of a line
dropCR(s) == IF Len(s) > 0 /\ s[Len(s)] = "\r" THEN SubSeq(s, 1, Len(s) - 1) ELSE s

RECURSIVE ScanLines(_)
\* the lines bufio.Scanner yields over the bytes b: split at newlines, a last
\* line without newline is yielded when it is not empty
ScanLines(b) ==
  IF b = <<>> THEN <<>>
  ELSE LET k == IndexByte(b, NL)
       IN IF k = 0 THEN <<dropCR(b)>>
          ELSE <<dropCR(SubSeq(b, 1, k - 1))>> \o ScanLines(SubSeq(b, k + 1, Len(b)))

\* newLineScanner(file): no line read yet
newLineScanner(b) == [lines |-> ScanLines(b), line |-> 0]

\* ---------------------------------------------------------------- tokenizer

Letters ==
  {"a","b","c","d","e","f","g","h","i","j","k","l","m","n","o","p","q","r","s","t","u","v","w","x","y","z",
   "A","B","C","D","E","F","G","H","I","J","K","L","M","N","O","P","Q","R","S","T","U","V","W","X","Y","Z"}

Digits == {"0","1","2","3","4","5","6","7","8","9"}

\* [-a-zA-Z0-9_,\.] of the expression in test_data_reader.go
IdentChars == Letters \cup Digits \cup {"-", "_", ",", "."}

\* [-a-zA-Z0-9_@=+/,\.]
ValueChars == Letters \cup Digits \cup {"-", "_", "@", "=", "+", "/", ",", "."}

RECURSIVE SpanWhile(_, _, _)
\* the first index >= i of s whose character is not in class (Len(s)+1 if none)
SpanWhile(s, i, class) ==
  IF i <= Len(s) /\ s[i] \in class THEN SpanWhile(s, i + 1, class) ELSE i

RECURSIVE SpanUntil(_, _, _)
\* the first index >= i of s whose character is c (Len(s)+1 if none)
SpanUntil(s, i, c) ==
  IF i <= Len(s) /\ s[i] # c THEN SpanUntil(s, i + 1, c) ELSE i

\* ( |$) at index k: matched up to and including a space, or at the end of s
EndOK(s, k) == k > Len(s) \/ s[k] = " "
EndLen(s, k) == IF k > Len(s) THEN Len(s) ELSE k

\* the expression from the end of the identifier, s[a..b-1], on:
\*   (|=[-a-zA-Z0-9_@=+/,\.]*|=\([^)]*\))( |$)
matchValue(s, a, b) ==
  IF b = a THEN 0
  ELSE IF EndOK(s, b) THEN EndLen(s, b)
  ELSE IF s[b] # "=" THEN 0
  ELSE IF EndOK(s, SpanWhile(s, b + 1, ValueChars))
       THEN EndLen(s, SpanWhile(s, b + 1, ValueChars))
  ELSE IF /\ b + 1 <= Len(s)
          /\ s[b + 1] = "("
          /\ SpanUntil(s, b + 2, ")") <= Len(s)
          /\ EndOK(s, SpanUntil(s, b + 2, ")") + 1)
       THEN EndLen(s, SpanUntil(s, b + 2, ")") + 1)
  ELSE 0

\* the expression from the identifier on, the leading spaces being s[1..a-1]
matchIdent(s, a) == matchValue(s, a, SpanWhile(s, a, IdentChars))

\* len(splitDirectivesRE.FindString(s)):
\*   ^ *[-a-zA-Z0-9_,\.]+(|=[-a-zA-Z0-9_@=+/,\.]*|=\([^)]*\))( |$)
\* 0 when the expression does not match
splitDirectivesRE(s) == matchIdent(s, SpanWhile(s, 1, {" "}))

\* the zero Pos (no "source:line" set)
NoPos == [name |-> "", line |-> 0]

NoErr == [nil |-> TRUE, pos |-> NoPos, line |-> <<>>]

RECURSIVE splitDirectives(_, _, _)

\* splitDirectives, one turn of the loop: n is the length of the match
splitToken(pos, line, res, n) ==
  IF n = 0
  THEN [fields |-> <<>>, err |-> [nil |-> FALSE, pos |-> pos, line |-> line]]
  ELSE splitDirectives(pos, SubSeq(line, n + 1, Len(line)),
                       Append(res, TrimSpace(SubSeq(line, 1, n))))

\* splitDirectives(pos, line); res holds the tokens split off so far
splitDirectives(pos, line, res) ==
  IF line = <<>> THEN [fields |-> res, err |-> NoErr]
  ELSE splitToken(pos, line, res, splitDirectivesRE(line))

\* valsOf leaving the elements of a list untrimmed
valsOfUntrimmed(val) ==
  IF Len(val) > 2 /\ val[1] = "(" /\ val[Len(val)] = ")"
  THEN Split(SubSeq(val, 2, Len(val) - 1), ",")
  ELSE <<val>>

\* the values of key=val: the trimmed elements of a parenthesized list, or val
valsOf(val) ==
  IF Len(val) > 2 /\ val[1] = "(" /\ val[Len(val)] = ")"
  THEN [i \in 1..Len(Split(SubSeq(val, 2, Len(val) - 1), ",")) |->
          TrimSpace(Split(SubSeq(val, 2, Len(val) - 1), ",")[i])]
  ELSE <<val>>

\* argAt leaving the "=" in the key
argAtKeepsEquals(arg, p) ==
  IF p = 0 THEN [Key |-> arg, Vals |-> <<>>]
  ELSE [Key |-> SubSeq(arg, 1, p), Vals |-> valsOf(SubSeq(arg, p + 1, Len(arg)))]

\* one argument token cut at p, the index of its first "=" (0 if none)
argAt(arg, p) ==
  IF p = 0 THEN [Key |-> arg, Vals |-> <<>>]
  ELSE [Key |-> SubSeq(arg, 1, p - 1), Vals |-> valsOf(SubSeq(arg, p + 1, Len(arg)))]

\* one argument token: key, key=value or key=(v1, v2, ...)
CmdArg(arg) == argAt(arg, IndexByte(arg, "="))

\* ParseLine after splitDirectives has returned s
parseFields(s) ==
  IF ~s.err.nil THEN [cmd |-> <<>>, cmdArgs |-> <<>>, err |-> NoErr]
  ELSE IF s.fields = <<>> THEN [cmd |-> <<>>, cmdArgs |-> <<>>, err |-> NoErr]
  ELSE [cmd |-> s.fields[1],
        cmdArgs |-> [i \in 1..(Len(s.fields) - 1) |-> CmdArg(s.fields[i + 1])],
        err |-> NoErr]

\* ParseLine(pos, line) as the reader calls it (test_data_reader.go)
ParseLine(pos, line) == parseFields(splitDirectives(pos, line, <<>>))

\* ---------------------------------------------------- tokenizer (line_parser.go)

\* [-a-zA-Z0-9/_,\.] of the expression in line_parser.go; the rest of the
\* expression is the one of test_data_reader.go
IdentChars_line_parser == Letters \cup Digits \cup {"-", "/", "_", ",", "."}

matchIdent_line_parser(s, a) == matchValue(s, a, SpanWhile(s, a, IdentChars_line_parser))

\* the expression with no slash in the class of the identifier
splitDirectivesRENoSlash(s) ==
  matchValue(s, SpanWhile(s, 1, {" "}),
             SpanWhile(s, SpanWhile(s, 1, {" "}), IdentChars_line_parser \ {"/"}))

\* len(splitDirectivesRE.FindString(s)):
\*   ^ *[-a-zA-Z0-9/_,\.]+(|=[-a-zA-Z0-9_@=+/,\.]*|=\([^)]*\))( |$)
splitDirectivesRE_line_parser(s) == matchIdent_line_parser(s, SpanWhile(s, 1, {" "}))

\* a nil error; an error is "cannot parse directive at column %d: %s"
NoColumnErr == [nil |-> TRUE, column |-> 0, line |-> <<>>]

RECURSIVE splitDirectives_line_parser(_, _, _)

\* splitDirectives reporting the unparsed rest of the line instead of the line
splitTokenReportsRest(origLine, line, res, n) ==
  IF n = 0
  THEN [fields |-> <<>>,
        err |-> [nil |-> FALSE, column |-> Len(origLine) - Len(line) + 1, line |-> line]]
  ELSE splitDirectives_line_parser(origLine, SubSeq(line, n + 1, Len(line)),
                                   Append(res, TrimSpace(SubSeq(line, 1, n))))

\* splitDirectives, one turn of the loop: n is the length of the match
splitToken_line_parser(origLine, line, res, n) ==
  IF n = 0
  THEN [fields |-> <<>>,
        err |-> [nil |-> FALSE, column |-> Len(origLine) - Len(line) + 1, line |-> origLine]]
  ELSE splitDirectives_line_parser(origLine, SubSeq(line, n + 1, Len(line)),
                                   Append(res, TrimSpace(SubSeq(line, 1, n))))

\* splitDirectives taking a comment line for an empty one
splitDirectivesSkipsComment(origLine, line, res) ==
  IF line = <<>> \/ HasPrefix(line, <<"#">>) THEN [fields |-> res, err |-> NoColumnErr]
  ELSE splitToken_line_parser(origLine, line, res, splitDirectivesRE_line_parser(line))

\* splitDirectives(line): line is what is left of origLine, res the tokens so far
splitDirectives_line_parser(origLine, line, res) ==
  IF line = <<>> THEN [fields |-> res, err |-> NoColumnErr]
  ELSE splitToken_line_parser(origLine, line, res, splitDirectivesRE_line_parser(line))

\* ParseLine keeping, of the arguments with the same key, the last one only
parseFieldsLastKeyWins(s) ==
  IF ~s.err.nil THEN [cmd |-> <<>>, cmdArgs |-> <<>>, err |-> s.err]
  ELSE IF s.fields = <<>> THEN [cmd |-> <<>>, cmdArgs |-> <<>>, err |-> NoColumnErr]
  ELSE [cmd |-> s.fields[1],
        cmdArgs |-> LET kept == SelectSeq([i \in 1..(Len(s.fields) - 1) |->
                                 [arg |-> CmdArg(s.fields[i + 1]),
                                  last |-> \A j \in (i + 2)..Len(s.fields) :
                                             CmdArg(s.fields[j]).Key # CmdArg(s.fields[i + 1]).Key]],
                              LAMBDA e : e.last)
                    IN [i \in 1..Len(kept) |-> kept[i].arg],
        err |-> NoColumnErr]

\* ParseLine after splitDirectives has returned s
parseFields_line_parser(s) ==
  IF ~s.err.nil THEN [cmd |-> <<>>, cmdArgs |-> <<>>, err |-> s.err]
  ELSE IF s.fields = <<>> THEN [cmd |-> <<>>, cmdArgs |-> <<>>, err |-> NoColumnErr]
  ELSE [cmd |-> s.fields[1],
        cmdArgs |-> [i \in 1..(Len(s.fields) - 1) |-> CmdArg(s.fields[i + 1])],
        err |-> NoColumnErr]

\* ParseLine(line) of line_parser.go
ParseLine_line_parser(line) ==
  parseFields_line_parser(splitDirectives_line_parser(line, line, <<>>))

RECURSIVE JoinWith(_, _)
\* strings.Join(ss, sep)
JoinWith(ss, sep) ==
  IF ss = <<>> THEN <<>>
  ELSE IF Len(ss) = 1 THEN ss[1]
  ELSE ss[1] \o sep \o JoinWith(Tail(ss), sep)

\* CmdArg.String(): key, key=value or key=(v1, v2, ...)
String(arg) ==
  IF Len(arg.Vals) = 0 THEN arg.Key
  ELSE IF Len(arg.Vals) = 1 THEN arg.Key \o <<"=">> \o arg.Vals[1]
  ELSE arg.Key \o <<"=", "(">> \o JoinWith(arg.Vals, <<",", " ">>) \o <<")">>

\* the directive line of a command and its arguments
DirectiveLine(cmd, cmdArgs) ==
  JoinWith(<<cmd>> \o [i \in 1..Len(cmdArgs) |-> String(cmdArgs[i])], <<" ">>)

\* no call of ParseLine under way
NoParse == [pc |-> "idle", line |-> <<>>, res |-> parseFields_line_parser([fields |-> <<>>, err |-> NoColumnErr]),
            text |-> <<>>, again |-> parseFields_line_parser([fields |-> <<>>, err |-> NoColumnErr]),
            key |-> <<>>, has |-> FALSE, scan |-> [fatal |-> FALSE, vals |-> <<>>]]

\* ------------------------------------------------- reflectCall (driver.go)

\* a nil interface{} and the value v
Nil == [nil |-> TRUE, v |-> 0]
Val(v) == [nil |-> FALSE, v |-> v]

\* a nil error and the error with the message msg
NilError == [nil |-> TRUE, msg |-> ""]
Errorf(msg) == [nil |-> FALSE, msg |-> msg]

\* no panic, and a panic with the value r
NoPanic == [raised |-> FALSE, value |-> ""]
Panic(r) == [raised |-> TRUE, value |-> r]

\* the names of the DriverMap m and what each maps to: isEven and panicsOnZero
\* of TestReflectCall, add of TestYAMLDriven, a value that is no function, a
\* function of two parameters and a function with no result
DriverNames == {"even", "errs", "add", "notfn", "two", "noret"}

functionAndType(name) ==
  [ok |-> name # "notfn", numIn |-> IF name = "two" THEN 2 ELSE 1,
   numOut |-> IF name = "noret" THEN 0 ELSE 1]

\* what the function f of the name does on the input v, n being the variable
\* that add accumulates in: it returns a value or panics, and it leaves n
fVal(name, v, n) ==
  IF name = "errs"
  THEN (IF v = 0 THEN [panic |-> Panic("boom"), out |-> 0, n |-> n]
                 ELSE [panic |-> NoPanic, out |-> v, n |-> n])
  ELSE IF name = "add"
  THEN [panic |-> NoPanic, out |-> n + v, n |-> n + v]
  ELSE [panic |-> NoPanic, out |-> IF v % 2 = 0 THEN 1 ELSE 0, n |-> n]

\* reflectCall has not returned
NoReturn == [in |-> Nil, exp |-> Nil, out |-> Nil, err |-> NilError]

\* a populate that writes nothing and returns nil
NoPopulate == [kind |-> "ok", in |-> 0, exp |-> 0, msg |-> ""]

\* no call of reflectCall under way
NoCall ==
  [pc |-> "idle", name |-> "", pop |-> NoPopulate, vIn |-> 0, vExp |-> 0,
   in |-> Nil, exp |-> Nil, out |-> Nil, err |-> NilError,
   panic |-> NoPanic, populated |-> "no", invoked |-> FALSE, ret |-> NoReturn,
   n |-> 0, nPopulate |-> 0, nCall |-> 0]

\* return nil, nil, nil, err
returnError(c, err) ==
  [c EXCEPT !.pc = "returned",
            !.ret = [in |-> Nil, exp |-> Nil, out |-> Nil, err |-> err]]

\* reflectCall with no check of the number of parameters and results
lookupSkipsShape(c) ==
  IF c.name \notin DriverNames
  THEN returnError(c, Errorf("driver \"" \o c.name \o "\" not found"))
  ELSE IF ~functionAndType(c.name).ok
  THEN returnError(c, Errorf("argument is not a function"))
  ELSE [c EXCEPT !.pc = "populate", !.vIn = 0, !.vExp = 0]

\* reflectCall up to the call of populate: the function is looked up and
\* checked, vIn and vExp hold zero values
lookup(c) ==
  IF c.name \notin DriverNames
  THEN returnError(c, Errorf("driver \"" \o c.name \o "\" not found"))
  ELSE IF ~functionAndType(c.name).ok
  THEN returnError(c, Errorf("argument is not a function"))
  ELSE IF functionAndType(c.name).numOut # 1 \/ functionAndType(c.name).numIn # 1
  THEN returnError(c, Errorf("function does not take and return one value"))
  ELSE [c EXCEPT !.pc = "populate", !.vIn = 0, !.vExp = 0]

\* the deferred function after a panic with the value r:
\* err = fmt.Errorf("%+v", r)
deferred(c, r) == [c EXCEPT !.pc = "return", !.panic = Panic(r), !.err = Errorf(r)]

\* populate called with no check of what it returns
afterPopulateIgnoresError(c) ==
  IF c.pop.kind = "panic" THEN deferred(c, c.pop.msg)
  ELSE [c EXCEPT !.pc = "invoke",
                 !.populated = IF c.pop.kind = "error" THEN "error" ELSE "nil"]

\* if err := populate(vIn.Interface(), vExp.Interface()); err != nil { return err }
\* c holds what populate wrote to vIn and vExp
afterPopulate(c) ==
  IF c.pop.kind = "panic" THEN deferred(c, c.pop.msg)
  ELSE IF c.pop.kind = "error"
  THEN [c EXCEPT !.pc = "return", !.populated = "error", !.err = Errorf(c.pop.msg)]
  ELSE [c EXCEPT !.pc = "invoke", !.populated = "nil"]

\* out = fVal.Call(...)[0].Interface(); return nil; r is what the function did
afterCall(c, r) ==
  IF r.panic.raised THEN deferred([c EXCEPT !.n = r.n], r.panic.value)
  ELSE [c EXCEPT !.pc = "return", !.out = Val(r.out), !.err = NilError, !.n = r.n]

\* the call of populate: populate writes through the two pointers, then
\* returns nil or an error, or panics
populateCall(c) ==
  afterPopulate([c EXCEPT !.vIn = c.pop.in, !.vExp = c.pop.exp,
                          !.nPopulate = c.nPopulate + 1])

\* the function called with the zero value, in and exp read before populate
\* wrote them
invokeCallZero(c) ==
  afterCall([c EXCEPT !.in = Val(0), !.exp = Val(0),
                      !.invoked = TRUE, !.nCall = c.nCall + 1],
            fVal(c.name, 0, c.n))

\* in = vIn.Elem().Interface(); exp = vExp.Elem().Interface();
\* out = fVal.Call([]reflect.Value{vIn.Elem()})[0].Interface()
invokeCall(c) ==
  afterCall([c EXCEPT !.in = Val(c.vIn), !.exp = Val(c.vExp),
                      !.invoked = TRUE, !.nCall = c.nCall + 1],
            fVal(c.name, c.vIn, c.n))

\* the return handing out in, exp and out also with an error
returnValuesKeepsResults(c) ==
  [c EXCEPT !.pc = "returned",
            !.ret = [in |-> c.in, exp |-> c.exp, out |-> c.out, err |-> c.err]]

\* if err := func() ...(); err != nil { return nil, nil, nil, err }
\* return in, exp, out, nil
returnValues(c) ==
  IF ~c.err.nil THEN returnError(c, c.err)
  ELSE [c EXCEPT !.pc = "returned",
                 !.ret = [in |-> c.in, exp |-> c.exp, out |-> c.out, err |-> NilError]]

\* reflectCall from its entry to its return
thenPopulate(c) == IF c.pc = "populate" THEN populateCall(c) ELSE c
thenInvoke(c) == IF c.pc = "invoke" THEN invokeCall(c) ELSE c
thenReturn(c) == IF c.pc = "return" THEN returnValues(c) ELSE c
reflectCall(c) == thenReturn(thenInvoke(thenPopulate(lookup(c))))

\* ------------------------------------------------------- runYAMLInternal

\* the "##" that starts a header and the "---" that starts a document
Hashes == <<"#", "#">>
DocumentStart == <<"-", "-", "-">>

\* s without its leading whitespace
TrimLeft(s) == SubSeq(s, SpanWhile(s, 1, SpaceChars), Len(s))

\* the first line from k on that begins with "##", 0 if there is none
HeaderFrom(ls, k) ==
  IF \E i \in k..Len(ls) : HasPrefix(ls[i], Hashes)
  THEN CHOOSE i \in k..Len(ls) :
         /\ HasPrefix(ls[i], Hashes)
         /\ \A j \in k..(i - 1) : ~HasPrefix(ls[j], Hashes)
  ELSE 0

\* the first line after i that is not blank, 0 if there is none
NonBlankAfter(ls, i) ==
  IF \E j \in (i + 1)..Len(ls) : ~IsBlank(ls[j])
  THEN CHOOSE j \in (i + 1)..Len(ls) :
         ~IsBlank(ls[j]) /\ \A k \in (i + 1)..(j - 1) : IsBlank(ls[k])
  ELSE 0

\* the last of the blank lines that follow line j without a gap (j if none)
BlankRunEnd(ls, j) ==
  IF NonBlankAfter(ls, j) = 0 THEN Len(ls) ELSE NonBlankAfter(ls, j) - 1

\* the match of yamlRE, (?:^##|\n##)\s*(.*)\s*\n, that starts at the "##" of
\* line i, the lines being each ended by a newline: the first \s* runs over
\* the rest of the line and over blank lines when nothing but whitespace
\* follows the "##", (.*) is the rest of the line reached, and the last \s*
\* takes the blank lines that follow; end is the last line of the match
matchAt(ls, i) ==
  IF ~IsBlank(SubSeq(ls[i], 3, Len(ls[i])))
  THEN [cmd |-> TrimLeft(SubSeq(ls[i], 3, Len(ls[i]))), line |-> i,
        end |-> BlankRunEnd(ls, i)]
  ELSE IF NonBlankAfter(ls, i) = 0
  THEN [cmd |-> <<>>, line |-> Len(ls), end |-> Len(ls)]
  ELSE [cmd |-> TrimLeft(ls[NonBlankAfter(ls, i)]), line |-> NonBlankAfter(ls, i),
        end |-> BlankRunEnd(ls, NonBlankAfter(ls, i))]

RECURSIVE FindAllSubmatchIndex(_, _)
\* yamlRE.FindAllSubmatchIndex(b, -1) over the lines of b from line k on, the
\* match before having taken the newline in front of line k: a match starts at
\* the beginning of the text or at a newline that no match has taken
FindAllSubmatchIndex(ls, k) ==
  IF k > Len(ls) THEN <<>>
  ELSE IF k = 1 /\ HasPrefix(ls[1], Hashes)
  THEN <<matchAt(ls, 1)>> \o FindAllSubmatchIndex(ls, matchAt(ls, 1).end + 1)
  ELSE IF HeaderFrom(ls, k + 1) = 0 THEN <<>>
  ELSE <<matchAt(ls, HeaderFrom(ls, k + 1))>>
         \o FindAllSubmatchIndex(ls, matchAt(ls, HeaderFrom(ls, k + 1)).end + 1)

RECURSIVE StringOf(_)
\* string(cmd)
StringOf(cs) == IF cs = <<>> THEN "" ELSE Head(cs) \o StringOf(Tail(cs))

DigitValue ==
  [c \in Digits |->
     CASE c = "0" -> 0 [] c = "1" -> 1 [] c = "2" -> 2 [] c = "3" -> 3 [] c = "4" -> 4
       [] c = "5" -> 5 [] c = "6" -> 6 [] c = "7" -> 7 [] c = "8" -> 8 [] c = "9" -> 9]

RECURSIVE Atoi(_)
Atoi(s) ==
  IF s = <<>> THEN 0
  ELSE 10 * Atoi(SubSeq(s, 1, Len(s) - 1)) + DigitValue[s[Len(s)]]

\* a YAML document: empty, an integer, another scalar, or text that is no YAML
EmptyDocument == [kind |-> "empty", v |-> 0]

\* the document whose lines, comments and blank lines apart, are ls
documentOf(ls) ==
  IF ls = <<>> THEN EmptyDocument
  ELSE IF \E i \in 1..Len(ls) : ls[i][1] = "{" THEN [kind |-> "invalid", v |-> 0]
  ELSE IF Len(ls) = 1 /\ \A i \in 1..Len(ls[1]) : ls[1][i] \in Digits
  THEN [kind |-> "int", v |-> Atoi(ls[1])]
  ELSE [kind |-> "string", v |-> 0]

RECURSIVE documents(_, _, _)
\* the documents of the stream of lines ls: a "---" line starts a document,
\* lines before the first "---" are a document when they hold more than
\* comments and blank lines, and a "---" that nothing follows starts an empty
\* document. cur holds the lines of the document under way, open tells whether
\* a "---" started it
documents(ls, cur, open) ==
  IF ls = <<>>
  THEN (IF open \/ cur # <<>> THEN <<documentOf(cur)>> ELSE <<>>)
  ELSE IF Head(ls) = DocumentStart
  THEN (IF open \/ cur # <<>> THEN <<documentOf(cur)>> ELSE <<>>)
         \o documents(Tail(ls), <<>>, TRUE)
  ELSE IF IsBlank(Head(ls)) \/ HasPrefix(TrimLeft(Head(ls)), <<"#">>)
  THEN documents(Tail(ls), cur, open)
  ELSE documents(Tail(ls), Append(cur, TrimSpace(Head(ls))), open)

\* yaml.NewDecoder(bytes.NewReader(b)): the documents left to decode
NewDecoder(b) == documents(ScanLines(b), <<>>, FALSE)

\* dec.Decode into an int: [err, v, docs]; an empty document leaves the zero
\* value
DecodeInt(docs) ==
  IF docs = <<>> THEN [err |-> Errorf("EOF"), v |-> 0, docs |-> docs]
  ELSE IF Head(docs).kind = "invalid"
  THEN [err |-> Errorf("yaml: did not find expected node content"), v |-> 0, docs |-> docs]
  ELSE IF Head(docs).kind = "string"
  THEN [err |-> Errorf("yaml: unmarshal errors"), v |-> 0, docs |-> Tail(docs)]
  ELSE [err |-> NilError, v |-> Head(docs).v, docs |-> Tail(docs)]

\* dec.Decode(&out) with out an interface{}: an empty document leaves out nil
DecodeAny(docs) ==
  IF docs = <<>> THEN [err |-> Errorf("EOF"), out |-> Nil, docs |-> docs]
  ELSE IF Head(docs).kind = "invalid"
  THEN [err |-> Errorf("yaml: did not find expected node content"), out |-> Nil, docs |-> docs]
  ELSE IF Head(docs).kind = "empty"
  THEN [err |-> NilError, out |-> Nil, docs |-> Tail(docs)]
  ELSE [err |-> NilError, out |-> Val(Head(docs).v), docs |-> Tail(docs)]

\* the populate of runYAMLInternal over the decoder: dec.Decode(in), then
\* dec.Decode(exp) when the first gave no error; in and exp are ints
populateOf(docs) ==
  IF ~DecodeInt(docs).err.nil
  THEN [kind |-> "error", in |-> 0, exp |-> 0, msg |-> DecodeInt(docs).err.msg]
  ELSE IF ~DecodeInt(DecodeInt(docs).docs).err.nil
  THEN [kind |-> "error", in |-> DecodeInt(docs).v, exp |-> 0,
        msg |-> DecodeInt(DecodeInt(docs).docs).err.msg]
  ELSE [kind |-> "ok", in |-> DecodeInt(docs).v,
        exp |-> DecodeInt(DecodeInt(docs).docs).v, msg |-> ""]

\* the decoder after populate
decoderAfter(docs) ==
  IF ~DecodeInt(docs).err.nil THEN DecodeInt(docs).docs
  ELSE DecodeInt(DecodeInt(docs).docs).docs

\* reflect.DeepEqual(exp, out)
DeepEqual(exp, out) == exp = out

\* no run of runYAMLInternal under way
NoYAML ==
  [pc |-> "idle", b |-> <<>>, pairs |-> <<>>, i |-> 1, docs |-> <<>>, n |-> 0,
   log |-> <<>>, ran |-> <<>>]

\* cmdIdxPairs, the check of len(b), and the decoder over b
startYAML(y) ==
  [y EXCEPT !.pc = "loop",
            !.pairs = FindAllSubmatchIndex(ScanLines(y.b), 1),
            !.docs = NewDecoder(y.b),
            !.log = IF Len(y.b) = 0
                    THEN <<[kind |-> "Errorf", case |-> 0, what |-> "no test cases found"]>>
                    ELSE <<>>]

\* the call of reflectCall with a function that starts anew at each call
callOfFresh(y) ==
  reflectCall([NoCall EXCEPT !.pc = "start", !.name = StringOf(y.pairs[y.i].cmd),
                             !.pop = populateOf(y.docs), !.n = 0])

\* the call of reflectCall for the next test case of y
callOf(y) ==
  reflectCall([NoCall EXCEPT !.pc = "start", !.name = StringOf(y.pairs[y.i].cmd),
                             !.pop = populateOf(y.docs), !.n = y.n])

\* what the test case y.i of the call c is in y.ran
ranOf(y, c) ==
  [case |-> y.i, name |-> c.name, docs |-> y.docs, populated |-> c.nPopulate,
   called |-> c.nCall, ret |-> c.ret]

\* a test case whose dispatch error is reported with t.Errorf
outcomeErrorf(y, c) ==
  IF ~c.ret.err.nil
  THEN [y EXCEPT !.i = y.i + 1, !.n = c.n, !.ran = Append(y.ran, ranOf(y, c)),
                 !.docs = IF c.nPopulate > 0 THEN decoderAfter(y.docs) ELSE y.docs,
                 !.log = Append(y.log, [kind |-> "Errorf", case |-> y.i, what |-> c.ret.err.msg])]
  ELSE [y EXCEPT !.i = y.i + 1, !.n = c.n, !.ran = Append(y.ran, ranOf(y, c)),
                 !.docs = decoderAfter(y.docs),
                 !.log = IF DeepEqual(c.ret.exp, c.ret.out) THEN y.log
                         ELSE Append(y.log, [kind |-> "Errorf", case |-> y.i, what |-> "mismatch"])]

\* a test case whose actual output is compared with its input
outcomeComparesInput(y, c) ==
  IF ~c.ret.err.nil
  THEN [y EXCEPT !.pc = "fatal", !.n = c.n, !.ran = Append(y.ran, ranOf(y, c)),
                 !.docs = IF c.nPopulate > 0 THEN decoderAfter(y.docs) ELSE y.docs,
                 !.log = Append(y.log, [kind |-> "Fatal", case |-> y.i, what |-> c.ret.err.msg])]
  ELSE [y EXCEPT !.i = y.i + 1, !.n = c.n, !.ran = Append(y.ran, ranOf(y, c)),
                 !.docs = decoderAfter(y.docs),
                 !.log = IF DeepEqual(c.ret.in, c.ret.out) THEN y.log
                         ELSE Append(y.log, [kind |-> "Errorf", case |-> y.i, what |-> "mismatch"])]

\* one test case, c being what reflectCall came to: t.Fatal(err) ends the
\* goroutine of the test (the deferred function recovers nothing, no panic
\* being under way), t.Errorf reports exp and out that differ and goes on
outcome(y, c) ==
  IF ~c.ret.err.nil
  THEN [y EXCEPT !.pc = "fatal", !.n = c.n, !.ran = Append(y.ran, ranOf(y, c)),
                 !.docs = IF c.nPopulate > 0 THEN decoderAfter(y.docs) ELSE y.docs,
                 !.log = Append(y.log, [kind |-> "Fatal", case |-> y.i, what |-> c.ret.err.msg])]
  ELSE [y EXCEPT !.i = y.i + 1, !.n = c.n, !.ran = Append(y.ran, ranOf(y, c)),
                 !.docs = decoderAfter(y.docs),
                 !.log = IF DeepEqual(c.ret.exp, c.ret.out) THEN y.log
                         ELSE Append(y.log, [kind |-> "Errorf", case |-> y.i, what |-> "mismatch"])]

\* what the last Decode reports: an error that is not io.EOF, a value that is
\* not nil
logAfter(log, d) ==
  (IF ~d.err.nil /\ d.err # Errorf("EOF")
   THEN Append(log, [kind |-> "Errorf", case |-> 0, what |-> "unexpected error while reading to end of file"])
   ELSE log)
  \o (IF d.out # Nil
      THEN <<[kind |-> "Errorf", case |-> 0, what |-> "decoded extraneous test case"]>>
      ELSE <<>>)

\* the end of runYAMLInternal: one more document is decoded
endYAML(y) ==
  [y EXCEPT !.pc = "done", !.docs = DecodeAny(y.docs).docs,
            !.log = logAfter(y.log, DecodeAny(y.docs))]

\* ------------------------------------------- Whiteboard (diagram/whiteboard.go)

\* math.MaxInt, which is above every column index there is
MaxInt == 2147483647

\* n spaces
Spaces(n) == [i \in 1..n |-> " "]

\* the zero whiteboardLine: firstColIdx 0 and a nil buf
ZeroLine == [firstColIdx |-> 0, buf |-> <<>>, nil |-> TRUE]

\* the zero Whiteboard: lines is nil
ZeroWhiteboard == [firstLineIdx |-> 0, lines |-> <<>>, nil |-> TRUE]

\* make([]whiteboardLine, n)
ZeroLines(n) == [i \in 1..n |-> ZeroLine]

\* wb.getLine(lineIdx): the whiteboard with the line there; the line is
\* lines[lineIdx - firstLineIdx], the first element having index 0
getLine(w, lineIdx) ==
  IF w.nil THEN [firstLineIdx |-> lineIdx, lines |-> ZeroLines(1), nil |-> FALSE]
  ELSE IF lineIdx < w.firstLineIdx
  THEN [w EXCEPT !.firstLineIdx = lineIdx,
                 !.lines = ZeroLines(w.firstLineIdx - lineIdx) \o @]
  ELSE IF lineIdx >= w.firstLineIdx + Len(w.lines)
  THEN [w EXCEPT !.lines = @ \o ZeroLines(lineIdx - (w.firstLineIdx + Len(w.lines)) + 1)]
  ELSE w

\* newLength of Write: what reaches from colIdx to the end of the buffer, and
\* at least one and a half times the buffer
newLength(l, colIdx) ==
  IF l.firstColIdx + Len(l.buf) - colIdx < (Len(l.buf) * 3) \div 2
  THEN (Len(l.buf) * 3) \div 2
  ELSE l.firstColIdx + Len(l.buf) - colIdx

\* the extension to the left that leaves firstColIdx as it was
extendLeftKeepsFirstCol(l, colIdx) ==
  IF colIdx < l.firstColIdx
  THEN [l EXCEPT !.buf = Spaces(newLength(l, colIdx) - Len(l.buf)) \o @]
  ELSE l

\* Write: the buffer is extended to the left when colIdx is before it
extendLeft(l, colIdx) ==
  IF colIdx < l.firstColIdx
  THEN [l EXCEPT !.buf = Spaces(newLength(l, colIdx) - Len(l.buf)) \o @,
                 !.firstColIdx = @ - (newLength(l, colIdx) - Len(l.buf))]
  ELSE l

\* Write: spaces are appended until the buffer reaches the end of the text of
\* n runes written at colIdx
extendRight(l, colIdx, n) ==
  IF l.firstColIdx + Len(l.buf) < colIdx + n
  THEN [l EXCEPT !.buf = @ \o Spaces(colIdx + n - (l.firstColIdx + Len(l.buf)))]
  ELSE l

\* l.buf[p:] is within the buffer
InRange(buf, p) == 0 <= p /\ p <= Len(buf)

\* copy(buf[p:], runes): as many runes as the rest of the buffer can take
copy(buf, p, runes) ==
  [i \in 1..Len(buf) |->
     IF p < i /\ i <= p + Len(runes) THEN runes[i - p] ELSE buf[i]]

\* Write on the line l, which has a buffer: [line, panic]
writeAt(l, colIdx, runes) ==
  IF InRange(l.buf, colIdx - l.firstColIdx)
  THEN [line |-> [l EXCEPT !.buf = copy(@, colIdx - l.firstColIdx, runes)], panic |-> FALSE]
  ELSE [line |-> l, panic |-> TRUE]

\* Write on the line l: [line, panic]
writeLine(l, colIdx, runes) ==
  IF l.nil
  THEN [line |-> [firstColIdx |-> colIdx, buf |-> runes, nil |-> FALSE], panic |-> FALSE]
  ELSE writeAt(extendRight(extendLeft(l, colIdx), colIdx, Len(runes)), colIdx, runes)

\* Write, g being the whiteboard that getLine left: [w, panic]
writeOn(g, lineIdx, colIdx, runes) ==
  [w |-> [g EXCEPT !.lines[lineIdx - g.firstLineIdx + 1] =
                     writeLine(@, colIdx, runes).line],
   panic |-> writeLine(g.lines[lineIdx - g.firstLineIdx + 1], colIdx, runes).panic]

\* wb.Write(lineIdx, colIdx, s), runes being []rune(s): [w, panic]
Write(w, lineIdx, colIdx, runes) == writeOn(getLine(w, lineIdx), lineIdx, colIdx, runes)

\* the number of spaces the buffer starts with: i after the inner loop of Indented
RECURSIVE SkippedSpaces(_)
SkippedSpaces(buf) ==
  IF buf # <<>> /\ Head(buf) = " " THEN 1 + SkippedSpaces(Tail(buf)) ELSE 0

\* firstCol of Indented after the lines ls, from the value firstCol
RECURSIVE firstColOf(_, _)
firstColOf(ls, firstCol) ==
  IF ls = <<>> THEN firstCol
  ELSE IF Head(ls).firstColIdx < firstCol
          /\ Head(ls).firstColIdx + SkippedSpaces(Head(ls).buf) < firstCol
  THEN firstColOf(Tail(ls), Head(ls).firstColIdx + SkippedSpaces(Head(ls).buf))
  ELSE firstColOf(Tail(ls), firstCol)

\* what Indented writes for the line l: [text, panic]
renderLine(l, firstCol, indent) ==
  IF l.firstColIdx > firstCol
  THEN [text |-> Spaces(indent) \o Spaces(l.firstColIdx - firstCol) \o l.buf \o <<NL>>,
        panic |-> FALSE]
  ELSE IF InRange(l.buf, firstCol - l.firstColIdx)
  THEN [text |-> Spaces(indent) \o SubSeq(l.buf, firstCol - l.firstColIdx + 1, Len(l.buf))
                   \o <<NL>>,
        panic |-> FALSE]
  ELSE [text |-> <<>>, panic |-> TRUE]

\* the second loop of Indented over the lines ls: [text, panic]
RECURSIVE renderLines(_, _, _)
renderLines(ls, firstCol, indent) ==
  IF ls = <<>> THEN [text |-> <<>>, panic |-> FALSE]
  ELSE [text |-> renderLine(Head(ls), firstCol, indent).text
                   \o renderLines(Tail(ls), firstCol, indent).text,
        panic |-> renderLine(Head(ls), firstCol, indent).panic
                    \/ renderLines(Tail(ls), firstCol, indent).panic]

\* wb.Indented(indent): [text, panic]
Indented(w, indent) ==
  IF Len(w.lines) = 0 THEN [text |-> <<>>, panic |-> FALSE]
  ELSE renderLines(w.lines, firstColOf(w.lines, MaxInt), indent)

\* no Whiteboard in use
NoBoard == [pc |-> "idle", w |-> ZeroWhiteboard, writes |-> <<>>, panic |-> FALSE,
            indent |-> 0, out |-> <<>>]

\* the handler calls wb.Write(lineIdx, colIdx, s)
writeCall(b, lineIdx, colIdx, runes) ==
  [b EXCEPT !.w = Write(b.w, lineIdx, colIdx, runes).w,
            !.panic = Write(b.w, lineIdx, colIdx, runes).panic,
            !.pc = IF Write(b.w, lineIdx, colIdx, runes).panic THEN "panic" ELSE "write",
            !.writes = Append(@, [lineIdx |-> lineIdx, colIdx |-> colIdx, s |-> runes])]

\* the handler returns wb.Indented(indent) (wb.String() with indent 0)
renderCall(b, indent) ==
  [b EXCEPT !.indent = indent,
            !.out = Indented(b.w, indent).text,
            !.panic = Indented(b.w, indent).panic,
            !.pc = IF Indented(b.w, indent).panic THEN "panic" ELSE "done"]

\* ------------------------------------------------------------------ state

VARIABLES
  scanner,   \* r.scanner: the lines of the stream and the number of lines read
  data,      \* r.data: the current TestData
  rewrite,   \* r.rewrite: nil, or the bytes of the rewrite buffer
  pc,        \* where runTestInternal stands: "next", "run", "eof", "done", "fatal"
  blk,       \* line numbers of the block the last Next call read
  source,    \* the bytes of the file being read
  outs,      \* the actual outputs of the directives run so far, in order
  recs,      \* the records Next has returned so far and where each was read, in order
  output,    \* rewriteOutput, what runTestInternal returns
  pass,      \* 1 while the original file is read, 2 while the rewritten file is
  prev,      \* what pass 1 left: its file, its outputs, its records, its result
  call,      \* a call of m.reflectCall(name, populate): where it stands, its
             \* variables, what it returned
  yaml,      \* a run of runYAMLInternal: its bytes, its test cases, its decoder,
             \* what it reported to t and what it ran
  wb,        \* a Whiteboard in the hands of a handler: its fields, the calls of
             \* Write made on it, whether an index was out of range, and what
             \* Indented returned
  parse      \* a call of ParseLine (line_parser.go): its line, its result, and the
             \* result of parsing the directive line written from that result

vars == <<scanner, data, rewrite, pc, blk, source, outs, recs, output, pass, prev, parse, call, yaml, wb>>

sourceName == "f"

\* TestData{}
EmptyData == [Pos |-> NoPos, Cmd |-> <<>>, CmdArgs |-> <<>>, Input |-> <<>>, Expected |-> <<>>]

\* emit leaving comment lines out of the rewrite buffer
emitDropsComment(rw, s) ==
  IF rw.nil \/ HasPrefix(TrimSpace(s), <<"#">>) THEN rw ELSE [rw EXCEPT !.buf = @ \o s \o <<NL>>]

\* r.emit(s)
emit(rw, s) == IF rw.nil THEN rw ELSE [rw EXCEPT !.buf = @ \o s \o <<NL>>]

\* r.rewrite.WriteString(s)
WriteString(rw, s) == IF rw.nil THEN rw ELSE [rw EXCEPT !.buf = @ \o s]

RECURSIVE joinContinuation(_, _, _, _)

\* the loop joining the next line without a space
joinContinuationNoSpace(lines, i, line, rw) ==
  IF HasSuffix(line, <<"\\">>) /\ i < Len(lines)
  THEN joinContinuation(lines, i + 1,
                        TrimSuffix(line, <<"\\">>) \o TrimSpace(lines[i + 1]),
                        emit(rw, lines[i + 1]))
  ELSE [line |-> line, i |-> i, rw |-> rw]

\* Next, the loop joining the lines of a directive wrapped with a backslash
joinContinuation(lines, i, line, rw) ==
  IF HasSuffix(line, <<"\\">>) /\ i < Len(lines)
  THEN joinContinuation(lines, i + 1,
                        TrimSuffix(line, <<"\\">>) \o <<" ">> \o TrimSpace(lines[i + 1]),
                        emit(rw, lines[i + 1]))
  ELSE [line |-> line, i |-> i, rw |-> rw]

\* seekParsed giving up at the first line without a command
seekParsedStopsAtBlank(lines, i, j, p) ==
  IF p.cmd = <<>>
  THEN [found |-> FALSE, fatal |-> FALSE, i |-> j.i, rw |-> j.rw, first |-> 0,
        pos |-> NoPos, cmd |-> <<>>, cmdArgs |-> <<>>]
  ELSE [found |-> TRUE, fatal |-> FALSE, i |-> j.i, rw |-> j.rw, first |-> i + 1,
        pos |-> [name |-> sourceName, line |-> j.i], cmd |-> p.cmd, cmdArgs |-> p.cmdArgs]

RECURSIVE seekDirective(_, _, _)

\* Next, the directive line read and parsed: i lines were read before it, j is
\* the joined line, p what ParseLine returned for it
seekParsed(lines, i, j, p) ==
  IF ~p.err.nil
  THEN [found |-> FALSE, fatal |-> TRUE, i |-> j.i, rw |-> j.rw, first |-> i + 1,
        pos |-> [name |-> sourceName, line |-> j.i], cmd |-> <<>>, cmdArgs |-> <<>>]
  ELSE IF p.cmd = <<>> THEN seekDirective(lines, j.i, j.rw)
  ELSE [found |-> TRUE, fatal |-> FALSE, i |-> j.i, rw |-> j.rw, first |-> i + 1,
        pos |-> [name |-> sourceName, line |-> j.i], cmd |-> p.cmd, cmdArgs |-> p.cmdArgs]

seekJoined(lines, i, j) ==
  seekParsed(lines, i, j, ParseLine([name |-> sourceName, line |-> j.i], j.line))

\* Next, one line scanned and echoed: line is the trimmed line, rw the buffer
seekLine(lines, i, line, rw) ==
  IF HasPrefix(line, <<"#">>) THEN seekDirective(lines, i + 1, rw)
  ELSE seekJoined(lines, i, joinContinuation(lines, i + 1, line, rw))

\* Next, the outer loop up to the directive line: comment lines, blank lines and
\* lines ParseLine returns no command for are echoed and skipped
seekDirective(lines, i, rw) ==
  IF i >= Len(lines)
  THEN [found |-> FALSE, fatal |-> FALSE, i |-> i, rw |-> rw, first |-> 0,
        pos |-> NoPos, cmd |-> <<>>, cmdArgs |-> <<>>]
  ELSE seekLine(lines, i, TrimSpace(lines[i + 1]), emit(rw, lines[i + 1]))

RECURSIVE readInputTrimmed(_, _, _, _)
\* readInput with the separator compared after trimming the line
readInputTrimmed(lines, i, buf, rw) ==
  IF i >= Len(lines) THEN [separator |-> FALSE, i |-> i, buf |-> buf, rw |-> rw]
  ELSE IF TrimSpace(lines[i + 1]) = Separator
       THEN [separator |-> TRUE, i |-> i + 1, buf |-> buf, rw |-> rw]
  ELSE readInputTrimmed(lines, i + 1, Fprintln(buf, lines[i + 1]), emit(rw, lines[i + 1]))

RECURSIVE readInput(_, _, _, _)
\* Next, the loop reading the input section up to a line equal to "----"
readInput(lines, i, buf, rw) ==
  IF i >= Len(lines) THEN [separator |-> FALSE, i |-> i, buf |-> buf, rw |-> rw]
  ELSE IF lines[i + 1] = Separator
       THEN [separator |-> TRUE, i |-> i + 1, buf |-> buf, rw |-> rw]
  ELSE readInput(lines, i + 1, Fprintln(buf, lines[i + 1]), emit(rw, lines[i + 1]))

RECURSIVE readExpectedDoubleOneSeparator(_, _, _)
\* readExpectedDouble ending at the first "----" line
readExpectedDoubleOneSeparator(lines, i, buf) ==
  IF i >= Len(lines) THEN [buf |-> buf, i |-> i, allowBlankLines |-> TRUE]
  ELSE IF lines[i + 1] = Separator
       THEN [buf |-> buf, i |-> IF i + 1 < Len(lines) THEN i + 2 ELSE i + 1,
             allowBlankLines |-> TRUE]
  ELSE readExpectedDoubleOneSeparator(lines, i + 1, Fprintln(buf, lines[i + 1]))

RECURSIVE readExpectedDoubleDropsBlank(_, _, _)
\* readExpectedDouble leaving blank lines out of the buffer
readExpectedDoubleDropsBlank(lines, i, buf) ==
  IF i >= Len(lines) THEN [buf |-> buf, i |-> i, allowBlankLines |-> TRUE]
  ELSE IF lines[i + 1] = Separator /\ i + 1 < Len(lines)
       THEN IF lines[i + 2] = Separator THEN [buf |-> buf, i |-> i + 2, allowBlankLines |-> TRUE]
            ELSE readExpectedDoubleDropsBlank(lines, i + 2,
                                    Fprintln(Fprintln(buf, lines[i + 1]), lines[i + 2]))
  ELSE readExpectedDoubleDropsBlank(lines, i + 1,
                                    IF TrimSpace(lines[i + 1]) = <<>> THEN buf
                                    ELSE Fprintln(buf, lines[i + 1]))

RECURSIVE readExpectedDouble(_, _, _)
\* readExpected, allowBlankLines: up to two successive lines of "----"
readExpectedDouble(lines, i, buf) ==
  IF i >= Len(lines) THEN [buf |-> buf, i |-> i, allowBlankLines |-> TRUE]
  ELSE IF lines[i + 1] = Separator /\ i + 1 < Len(lines)
       THEN IF lines[i + 2] = Separator THEN [buf |-> buf, i |-> i + 2, allowBlankLines |-> TRUE]
            ELSE readExpectedDouble(lines, i + 2,
                                    Fprintln(Fprintln(buf, lines[i + 1]), lines[i + 2]))
  ELSE readExpectedDouble(lines, i + 1, Fprintln(buf, lines[i + 1]))

RECURSIVE readExpectedSingleTrims(_, _, _, _)
\* readExpectedSingle writing the lines trimmed
readExpectedSingleTrims(lines, i, line, buf) ==
  IF TrimSpace(line) = <<>> THEN [buf |-> buf, i |-> i, allowBlankLines |-> FALSE]
  ELSE IF i >= Len(lines)
       THEN [buf |-> Fprintln(buf, TrimSpace(line)), i |-> i, allowBlankLines |-> FALSE]
  ELSE readExpectedSingleTrims(lines, i + 1, lines[i + 1], Fprintln(buf, TrimSpace(line)))

RECURSIVE readExpectedSingleEmptyOnly(_, _, _, _)
\* readExpectedSingle ending at an empty line only, not at a whitespace-only one
readExpectedSingleEmptyOnly(lines, i, line, buf) ==
  IF line = <<>> THEN [buf |-> buf, i |-> i, allowBlankLines |-> FALSE]
  ELSE IF i >= Len(lines) THEN [buf |-> Fprintln(buf, line), i |-> i, allowBlankLines |-> FALSE]
  ELSE readExpectedSingleEmptyOnly(lines, i + 1, lines[i + 1], Fprintln(buf, line))

RECURSIVE readExpectedSingle(_, _, _, _)
\* readExpected, otherwise: up to the first blank line
readExpectedSingle(lines, i, line, buf) ==
  IF TrimSpace(line) = <<>> THEN [buf |-> buf, i |-> i, allowBlankLines |-> FALSE]
  ELSE IF i >= Len(lines) THEN [buf |-> Fprintln(buf, line), i |-> i, allowBlankLines |-> FALSE]
  ELSE readExpectedSingle(lines, i + 1, lines[i + 1], Fprintln(buf, line))

\* readExpected never taking the double-separator form
readExpectedNoDouble(lines, i) ==
  IF i >= Len(lines) THEN readExpectedSingle(lines, i, <<>>, <<>>)
  ELSE readExpectedSingle(lines, i + 1, lines[i + 1], <<>>)

\* r.readExpected(), the scanner having read i lines: buf is Expected
readExpected(lines, i) ==
  IF i >= Len(lines) THEN readExpectedSingle(lines, i, <<>>, <<>>)
  ELSE IF lines[i + 1] = Separator THEN readExpectedDouble(lines, i + 1, <<>>)
  ELSE readExpectedSingle(lines, i + 1, lines[i + 1], <<>>)

NoBlock == [start |-> 0, first |-> 0, pos |-> 0, sep |-> 0, form |-> "none", end |-> 0]

\* Next echoing the lines of Expected as well
nextRecordEchoesExpected(start, s, in, ex) ==
  [pc |-> "run",
   data |-> [Pos |-> s.pos, Cmd |-> s.cmd, CmdArgs |-> s.cmdArgs,
             Input |-> TrimSpace(in.buf), Expected |-> ex.buf],
   line |-> ex.i,
   rw |-> IF in.rw.nil THEN in.rw ELSE WriteString(in.rw, ex.buf),
   blk |-> [start |-> start, first |-> s.first, pos |-> s.i,
            sep |-> IF in.separator THEN in.i ELSE 0,
            form |-> IF ~in.separator THEN "none"
                     ELSE IF ex.allowBlankLines THEN "double" ELSE "single",
            end |-> ex.i]]

\* Next from the separator on: s is the directive, in the input section, ex
\* what readExpected read
nextRecord(start, s, in, ex) ==
  [pc |-> "run",
   data |-> [Pos |-> s.pos, Cmd |-> s.cmd, CmdArgs |-> s.cmdArgs,
             Input |-> TrimSpace(in.buf), Expected |-> ex.buf],
   line |-> ex.i,
   rw |-> in.rw,
   blk |-> [start |-> start, first |-> s.first, pos |-> s.i,
            sep |-> IF in.separator THEN in.i ELSE 0,
            form |-> IF ~in.separator THEN "none"
                     ELSE IF ex.allowBlankLines THEN "double" ELSE "single",
            end |-> ex.i]]

\* nextInput returning false when the stream ends before a separator
nextInputNeedsSeparator(lines, start, s, in) ==
  IF in.separator THEN nextRecord(start, s, in, readExpected(lines, in.i))
  ELSE [pc |-> "eof", data |-> EmptyData, line |-> in.i, rw |-> in.rw,
        blk |-> [NoBlock EXCEPT !.start = start, !.end = in.i]]

\* Next without r.data = TestData{}: Expected, which only readExpected sets,
\* is the one of the record before when there is no separator
nextInputKeepsExpected(lines, start, s, in) ==
  nextRecord(start, s, in,
             IF in.separator THEN readExpected(lines, in.i)
             ELSE [buf |-> data.Expected, i |-> in.i, allowBlankLines |-> FALSE])

\* Next after the input section in was read: Expected is read when the separator
\* was found
nextInput(lines, start, s, in) ==
  nextRecord(start, s, in,
             IF in.separator THEN readExpected(lines, in.i)
             ELSE [buf |-> <<>>, i |-> in.i, allowBlankLines |-> FALSE])

\* Next setting Pos before it looks at the command
nextDirectiveSetsPos(lines, start, s) ==
  IF s.fatal
  THEN [pc |-> "fatal", data |-> EmptyData, line |-> s.i, rw |-> s.rw,
        blk |-> [NoBlock EXCEPT !.start = start, !.first = s.first, !.pos = s.i, !.end = s.i]]
  ELSE IF ~s.found
  THEN [pc |-> "eof", data |-> [EmptyData EXCEPT !.Pos = [NoPos EXCEPT !.line = s.i + 1]],
        line |-> s.i, rw |-> s.rw,
        blk |-> [NoBlock EXCEPT !.start = start, !.end = s.i]]
  ELSE nextInput(lines, start, s, readInput(lines, s.i, <<>>, s.rw))

\* Next from the directive line on: s is what the outer loop found
nextDirective(lines, start, s) ==
  IF s.fatal
  THEN [pc |-> "fatal", data |-> EmptyData, line |-> s.i, rw |-> s.rw,
        blk |-> [NoBlock EXCEPT !.start = start, !.first = s.first, !.pos = s.i, !.end = s.i]]
  ELSE IF ~s.found
  THEN [pc |-> "eof", data |-> EmptyData, line |-> s.i, rw |-> s.rw,
        blk |-> [NoBlock EXCEPT !.start = start, !.end = s.i]]
  ELSE nextInput(lines, start, s, readInput(lines, s.i, <<>>, s.rw))

\* what one call of r.Next(t) leaves, the scanner having read start lines
nextResult(lines, start, rw) == nextDirective(lines, start, seekDirective(lines, start, rw))

\* a scanner that starts over once it has reached the end of the stream
nextApplyRewinds(r) ==
  /\ pc' = r.pc
  /\ data' = r.data
  /\ scanner' = [scanner EXCEPT !.line = IF r.pc = "eof" THEN 0 ELSE r.line]
  /\ rewrite' = r.rw
  /\ blk' = r.blk
  /\ recs' = IF r.pc = "run" THEN Append(recs, [data |-> r.data, blk |-> r.blk]) ELSE recs

\* the call's effect on the reader
nextApply(r) ==
  /\ pc' = r.pc
  /\ data' = r.data
  /\ scanner' = [scanner EXCEPT !.line = r.line]
  /\ rewrite' = r.rw
  /\ blk' = r.blk
  /\ recs' = IF r.pc = "run" THEN Append(recs, [data |-> r.data, blk |-> r.blk]) ELSE recs

\* r.Next(t), one whole call
NextCall ==
  /\ pc = "next"
  /\ nextApply(nextResult(scanner.lines, scanner.line, rewrite))
  /\ UNCHANGED <<source, outs, output, pass, prev, parse, call, yaml, wb>>

\* ------------------------------------------------------------ runDirective

\* runDirective: a non-empty output of the handler is made to end in a newline
actualOf(out) == IF out # <<>> /\ ~HasSuffix(out, <<NL>>) THEN out \o <<NL>> ELSE out

\* hasBlankLine(s): some line of s is empty or whitespace only
hasBlankLine(s) == \E i \in 1..Len(ScanLines(s)) : TrimSpace(ScanLines(s)[i]) = <<>>

\* runDirective in rewrite mode: the separator and the actual output, in the
\* double-separator form when the output has a blank line
emitActual(rw, actual) ==
  IF hasBlankLine(actual)
  THEN emit(emit(WriteString(emit(emit(rw, Separator), Separator), actual), Separator), Separator)
  ELSE emit(emit(rw, Separator), actual)

\* what the handlers of the model return
HandlerOutputs ==
  { <<>>,
    <<"x">>,
    <<NL>>,
    <<"x", NL, NL, "x">>,
    Separator }

\* the handler's output for the record now run: any in pass 1, the output the
\* same record index got in pass 1 when the rewritten file is read again
OutputChoices ==
  IF pass = 2 /\ Len(outs) < Len(prev.outs) THEN {prev.outs[Len(outs) + 1]}
  ELSE HandlerOutputs

\* runDirective(t, r, f): the handler is called on r.data; in rewrite mode its
\* output is appended to the rewrite buffer, otherwise it is compared with Expected
RunDirective ==
  /\ pc = "run"
  /\ \E out \in OutputChoices :
       /\ outs' = Append(outs, out)
       /\ IF ~rewrite.nil
          THEN /\ rewrite' = emitActual(rewrite, actualOf(out))
               /\ pc' = "next"
          ELSE /\ rewrite' = rewrite
               /\ pc' = IF data.Expected # actualOf(out) THEN "fatal" ELSE "next"
  /\ UNCHANGED <<scanner, data, blk, source, recs, output, pass, prev, parse, call, yaml, wb>>

\* runTestInternal after the last Next: the rewrite buffer without a trailing
\* blank line
trimBlank(b) ==
  IF Len(b) > 2 /\ b[Len(b)] = NL /\ b[Len(b) - 1] = NL THEN SubSeq(b, 1, Len(b) - 1) ELSE b

rewriteOutput(rw) == IF rw.nil THEN rw ELSE [rw EXCEPT !.buf = trimBlank(@)]

Finish ==
  /\ pc = "eof"
  /\ output' = rewriteOutput(rewrite)
  /\ pc' = "done"
  /\ UNCHANGED <<scanner, data, rewrite, blk, source, outs, recs, pass, prev, parse, call, yaml, wb>>

NoBuffer == [nil |-> TRUE, buf |-> <<>>]
EmptyBuffer == [nil |-> FALSE, buf |-> <<>>]

NoPrev == [source |-> <<>>, outs |-> <<>>, recs |-> <<>>, output |-> <<>>]

\* newTestDataReader(t, sourceName, file, record) on the bytes b
Start(b, record) ==
  /\ source = b
  /\ scanner = newLineScanner(b)
  /\ data = EmptyData
  /\ rewrite = IF record THEN EmptyBuffer ELSE NoBuffer
  /\ pc = "next"
  /\ blk = NoBlock
  /\ outs = <<>>
  /\ recs = <<>>
  /\ output = NoBuffer
  /\ pass = 1
  /\ prev = NoPrev
  /\ parse = NoParse
  /\ call = NoCall
  /\ yaml = NoYAML
  /\ wb = NoBoard

\* the rewritten file is read again, in rewrite mode, each record getting the
\* output it got the first time
Reread ==
  /\ pc = "done"
  /\ pass = 1
  /\ ~output.nil
  /\ source' = output.buf
  /\ scanner' = newLineScanner(output.buf)
  /\ data' = EmptyData
  /\ rewrite' = EmptyBuffer
  /\ pc' = "next"
  /\ blk' = NoBlock
  /\ outs' = <<>>
  /\ recs' = <<>>
  /\ output' = NoBuffer
  /\ pass' = 2
  /\ prev' = [source |-> source, outs |-> outs, recs |-> recs, output |-> output.buf]
  /\ UNCHANGED <<parse, call, yaml, wb>>

Next == NextCall \/ RunDirective \/ Finish \/ Reread

\* r.Next(t) called once more after it has returned false
NextAgain ==
  /\ pc = "eof"
  /\ nextApply(nextResult(scanner.lines, scanner.line, rewrite))
  /\ UNCHANGED <<source, outs, output, pass, prev, parse, call, yaml, wb>>

\* the loop of runTestInternal, and calls of Next past its end
NextRead == NextCall \/ RunDirective \/ NextAgain

\* ------------------------------------------------------ the handler of TestSkip

SkipCmd == <<"s", "k", "i", "p">>
ErrorCmd == <<"e", "r", "r", "o", "r">>

\* the handler of TestSkip on the record d: t.Skip("woo") for skip, and
\* t.Error("never reached") for error, which returns d.Expected like the rest
handlerOfTestSkip(d) ==
  [skip |-> d.Cmd = SkipCmd, error |-> d.Cmd = ErrorCmd, out |-> d.Expected]

\* a t.Skip that only ends the call of the handler
afterHandlerGoesOn(h) == "next"

\* where the run stands after the handler: t.Skip ends the goroutine of the
\* test through runtime.Goexit, the handler being called on that goroutine
afterHandler(h) == IF h.skip THEN "skipped" ELSE "next"

\* runDirective(t, r, f) with the handler of TestSkip
RunDirectiveSkip ==
  /\ pc = "run"
  /\ pc' = afterHandler(handlerOfTestSkip(data))
  /\ outs' = IF handlerOfTestSkip(data).skip THEN outs
             ELSE Append(outs, handlerOfTestSkip(data).out)
  /\ rewrite' = IF handlerOfTestSkip(data).skip \/ rewrite.nil THEN rewrite
                ELSE emitActual(rewrite, actualOf(handlerOfTestSkip(data).out))
  /\ UNCHANGED <<scanner, data, blk, source, recs, output, pass, prev, parse, call, yaml, wb>>

NextSkip == NextCall \/ RunDirectiveSkip \/ Finish

\* ---------------------------------------------------------- ParseLine calls

readerVars == <<scanner, data, rewrite, pc, blk, source, outs, recs, output, pass, prev>>

\* no file is being read
NoReader ==
  /\ source = <<>>
  /\ scanner = newLineScanner(<<>>)
  /\ data = EmptyData
  /\ rewrite = NoBuffer
  /\ pc = "idle"
  /\ blk = NoBlock
  /\ outs = <<>>
  /\ recs = <<>>
  /\ output = NoBuffer
  /\ pass = 1
  /\ prev = NoPrev

\* cmd, args, err := ParseLine(line)
ParseLineCall ==
  /\ parse.pc = "call"
  /\ parse' = [parse EXCEPT !.pc = "parsed", !.res = ParseLine_line_parser(parse.line)]
  /\ UNCHANGED <<readerVars, call, yaml, wb>>

\* the command and arguments are written back as a directive line (as the
\* handler of TestParseLine prints them) and that line is parsed
Reparse ==
  /\ parse.pc = "parsed"
  /\ parse.res.err.nil
  /\ parse.res.cmd # <<>>
  /\ parse' = [parse EXCEPT
                 !.pc = "reparsed",
                 !.text = DirectiveLine(parse.res.cmd, parse.res.cmdArgs),
                 !.again = ParseLine_line_parser(DirectiveLine(parse.res.cmd, parse.res.cmdArgs))]
  /\ UNCHANGED <<readerVars, call, yaml, wb>>

NextLine == ParseLineCall \/ Reparse

\* ------------------------------------------- lookups by key (HasArg, ScanArgs)

\* a lookup that goes through the arguments from the last one
RECURSIVE findArgLast(_, _)
findArgLast(cmdArgs, key) ==
  IF cmdArgs = <<>> THEN 0
  ELSE IF cmdArgs[Len(cmdArgs)].Key = key THEN Len(cmdArgs)
  ELSE findArgLast(SubSeq(cmdArgs, 1, Len(cmdArgs) - 1), key)

\* the loop over td.CmdArgs that returns at the first argument whose Key is
\* key: its index, 0 when there is none
RECURSIVE findArg(_, _)
findArg(cmdArgs, key) ==
  IF cmdArgs = <<>> THEN 0
  ELSE IF Head(cmdArgs).Key = key THEN 1
  ELSE IF findArg(Tail(cmdArgs), key) = 0 THEN 0
  ELSE 1 + findArg(Tail(cmdArgs), key)

\* td.HasArg(key)
HasArg(cmdArgs, key) == findArg(cmdArgs, key) # 0

\* td.ScanArgs(t, key, dests...): t.Fatalf when the key is missing, otherwise
\* the values of the argument found, which are scanned into dests
ScanArgs(cmdArgs, key) ==
  IF findArg(cmdArgs, key) = 0 THEN [fatal |-> TRUE, vals |-> <<>>]
  ELSE [fatal |-> FALSE, vals |-> cmdArgs[findArg(cmdArgs, key)].Vals]

\* the keys the handler looks up
KeySet == { <<"a">>, <<"k">>, <<"x", "x">>, <<"z">> }

\* the handler calls d.HasArg(key) and d.ScanArgs(t, key, ...) on the
\* arguments of the line that was parsed
LookupArg ==
  /\ parse.pc = "parsed"
  /\ parse.res.err.nil
  /\ parse.res.cmd # <<>>
  /\ \E key \in KeySet :
       parse' = [parse EXCEPT
                   !.pc = "looked",
                   !.key = key,
                   !.has = HasArg(parse.res.cmdArgs, key),
                   !.scan = ScanArgs(parse.res.cmdArgs, key)]
  /\ UNCHANGED <<readerVars, call, yaml, wb>>

NextArgs == ParseLineCall \/ LookupArg

\* -------------------------------------------------------- reflectCall calls

\* m.reflectCall(name, populate) up to the call of populate
Lookup ==
  /\ call.pc = "start"
  /\ call' = lookup(call)
  /\ UNCHANGED <<readerVars, parse, yaml, wb>>

\* populate(vIn.Interface(), vExp.Interface()): populate writes through the two
\* pointers, then returns nil or an error, or panics
Populate ==
  /\ call.pc = "populate"
  /\ call' = populateCall(call)
  /\ UNCHANGED <<readerVars, parse, yaml, wb>>

\* in = vIn.Elem().Interface(); exp = vExp.Elem().Interface();
\* out = fVal.Call([]reflect.Value{vIn.Elem()})[0].Interface()
Invoke ==
  /\ call.pc = "invoke"
  /\ call' = invokeCall(call)
  /\ UNCHANGED <<readerVars, parse, yaml, wb>>

\* reflectCall returns
Return ==
  /\ call.pc = "return"
  /\ call' = returnValues(call)
  /\ UNCHANGED <<readerVars, parse, yaml, wb>>

NextReflect == Lookup \/ Populate \/ Invoke \/ Return

\* ---------------------------------------------------- runYAMLInternal runs

\* runYAMLInternal up to its loop
RunYAMLStart ==
  /\ yaml.pc = "start"
  /\ yaml' = startYAML(yaml)
  /\ UNCHANGED <<readerVars, parse, call, wb>>

\* one turn of the loop over cmdIdxPairs
RunYAMLCase ==
  /\ yaml.pc = "loop"
  /\ yaml.i <= Len(yaml.pairs)
  /\ call' = callOf(yaml)
  /\ yaml' = outcome(yaml, callOf(yaml))
  /\ UNCHANGED <<readerVars, parse, wb>>

\* runYAMLInternal after its loop
RunYAMLEnd ==
  /\ yaml.pc = "loop"
  /\ yaml.i > Len(yaml.pairs)
  /\ yaml' = endYAML(yaml)
  /\ UNCHANGED <<readerVars, parse, call, wb>>

NextYAML == RunYAMLStart \/ RunYAMLCase \/ RunYAMLEnd

\* ------------------------------------------------------------------ inputs

MaxLines == 4
MaxContent == 4
MaxBody == 4
MaxRewriteLines == 4
MaxLineLen == 5
MaxTokens == 3
MaxParts == 3
MaxGap == 3
MaxVal == 2
MaxCases == 2
MaxRecords == 3
MaxBlocks == 2
MaxWrites == 3

\* the files of at most n lines drawn from ls
FilesOf(ls, n) == { JoinLines(f) : f \in UNION { [1..k -> ls] : k \in 0..n } }

\* lines of every kind the reader tells apart
LineSet ==
  { <<>>,                          \* empty
    Separator,
    <<"#">>,                       \* comment
    <<"a">>,                       \* directive
    <<"b", " ", "k">>,             \* directive with an argument
    <<"a", " ", "\\">>,            \* directive continued on the next line
    <<"a", " ", "=">> }            \* a line the tokenizer rejects

\* lines of an expected section
ContentSet == { <<>>, <<" ">>, Separator, <<"x">> }

\* lines after a directive line
BodySet == { <<>>, <<" ">>, Separator, <<"-", "-", "-", "-", " ">>, <<"#">>, <<"x">> }

\* lines of a file that is rewritten
RewriteSet == { <<>>, Separator, <<"#">>, <<"a">>, <<"a", " ", "\\">> }

\* b, and b without its last newline
WithAndWithoutNewline(b) == {b} \cup (IF b = <<>> THEN {} ELSE {SubSeq(b, 1, Len(b) - 1)})

Init == \E b \in FilesOf(LineSet, MaxLines), record \in BOOLEAN : Start(b, record)

\* a directive, "----", "----" and the lines of a double-separator section
InitDouble ==
  \E c \in FilesOf(ContentSet, MaxContent), record \in BOOLEAN :
    Start(JoinLines(<<<<"a">>, Separator, Separator>>) \o c, record)

\* a directive line and the lines that follow it
InitBody ==
  \E c \in FilesOf(BodySet, MaxBody), record \in BOOLEAN :
    Start(JoinLines(<< <<"a">> >>) \o c, record)

\* a file read in rewrite mode, its last line with or without a newline
InitRewrite ==
  \E f \in FilesOf(RewriteSet, MaxRewriteLines) :
    \E b \in WithAndWithoutNewline(f) : Start(b, TRUE)

\* the characters lines are made of
LineAlphabet == {"x", " ", "=", "(", ")", ",", "#"}

\* the lines of at most n characters of LineAlphabet
CharLines(n) == UNION { [1..k -> LineAlphabet] : k \in 0..n }

\* tokens, and pieces the tokenizer rejects
TokenSet ==
  { <<"x", "x">>, <<"a", "=", "b">>, <<"a", "=", "c">>, <<"k", "=">>,
    <<"k", "=", "a", ",", "b">>, <<"k", "=", "(", "1", ",", " ", "2", ")">>,
    <<"k", "=", "(", "a", " ", "b", ")">>, <<"k", "=", "(", ")">>,
    <<"k", "=", "(", "(", "a", ",", "b", ")">>, <<"k", "=", "(", "#", ")">>,
    <<"a", "/", "b">>, <<"=">>, <<"+", "+", "+">>, <<"\t">> }

\* the lines of at most n pieces of TokenSet, one space between pieces
TokenLines(n) ==
  { JoinWith(ts, <<" ">>) : ts \in UNION { [1..k -> TokenSet] : k \in 1..n } }

\* a line handed to ParseLine
InitLine ==
  /\ NoReader
  /\ call = NoCall
  /\ yaml = NoYAML
  /\ wb = NoBoard
  /\ \E l \in CharLines(MaxLineLen) \cup TokenLines(MaxTokens) :
       parse = [NoParse EXCEPT !.pc = "call", !.line = l]

\* the parts of a directive written over several lines
PartSet ==
  { <<"a">>, <<"b">>, <<"k", "=", "v">>, <<"a", " ", "k", "=", "(", "x">>, <<"y", ")">>, <<>> }

\* how a line that is continued ends
MarkerSet == { <<"\\">>, <<" ", "\\">> }

\* the lines of the parts ps: each but the last gets one of the markers of ms
ContinuedLines(ps, ms) ==
  [i \in 1..Len(ps) |-> IF i < Len(ps) THEN ps[i] \o ms[i] ELSE ps[i]]

\* a directive written over one to MaxParts lines
InitContinued ==
  \E n \in 1..MaxParts, record \in BOOLEAN :
    \E ps \in [1..n -> PartSet], ms \in [1..n -> MarkerSet] :
      Start(JoinLines(ContinuedLines(ps, ms)), record)

\* the lines between two blocks: blank, comment, a line the tokenizer rejects
\* that ends in a backslash, a directive
GapSet == { <<>>, <<"#">>, <<"=", " ", "\\">>, <<"b">> }

\* a block, up to MaxGap lines, and a last block
InitGap ==
  \E g \in FilesOf(GapSet, MaxGap), record \in BOOLEAN :
    Start(JoinLines(<< <<"a">>, Separator, <<"x">>, <<>> >>) \o g
            \o JoinLines(<< <<"c">>, Separator, <<"x">> >>), record)

\* what populate does: it writes in and exp, then returns nil, returns an error
\* or panics
PopulateSet ==
  [kind : {"ok", "error", "panic"}, in : 0..MaxVal, exp : {0, 1}, msg : {"broken", "fail"}]

\* a call of reflectCall with a name of the map or a name that is not in it
InitReflect ==
  /\ NoReader
  /\ parse = NoParse
  /\ yaml = NoYAML
  /\ wb = NoBoard
  /\ \E name \in DriverNames \cup {"missing"}, pop \in PopulateSet :
       call = [NoCall EXCEPT !.pc = "start", !.name = name, !.pop = pop]

\* a test case in the form of the comment of RunYAML: a header that names add
\* or errs of the map, a function of two parameters or a name that is not in
\* the map; an input that is nothing, an int, a string or text that is no
\* YAML; "---", an expected value, "---". And a header line that no document
\* follows
YAMLBlockSet ==
  { <<h>> \o in \o <<DocumentStart, exp, DocumentStart>> :
      h \in { <<"#", "#", " ", "a", "d", "d">>, <<"#", "#", " ", "e", "r", "r", "s">>,
              <<"#", "#", " ", "t", "w", "o">>, <<"#", "#", " ", "n", "o", "p", "e">> },
      in \in { <<>>, << <<"0">> >>, << <<"1">> >>, << <<"x">> >>, << <<"{">> >> },
      exp \in { <<"1">>, <<"2">> } }
  \cup { << <<"#", "#", " ", "a", "d", "d">> >> }

\* what follows the last test case
YAMLTailSet ==
  { <<>>, << <<"1">> >>, << DocumentStart, <<"1">> >>, << <<"{">> >>,
    << <<"#">> >>, << DocumentStart >> }

RECURSIVE Flatten(_)
Flatten(ss) == IF ss = <<>> THEN <<>> ELSE Head(ss) \o Flatten(Tail(ss))

\* the files of at most n test cases
YAMLFiles(n) ==
  { JoinLines(Flatten(bs) \o tl) :
      bs \in UNION { [1..k -> YAMLBlockSet] : k \in 0..n }, tl \in YAMLTailSet }

\* a run of runYAMLInternal over a file
InitYAML ==
  /\ NoReader
  /\ parse = NoParse
  /\ call = NoCall
  /\ \E b \in YAMLFiles(MaxCases) : yaml = [NoYAML EXCEPT !.pc = "start", !.b = b]
  /\ wb = NoBoard

\* a block of the file of TestSkip: a comment line or none, the directive skip,
\* error or a, the separator, a blank line
SkipBlockSet ==
  { c \o <<cmd, Separator, <<>> >> :
      c \in { <<>>, << <<"#">> >> }, cmd \in {SkipCmd, ErrorCmd, <<"a">>} }

\* RunTestFromString on a file of at most MaxRecords blocks
InitSkip ==
  \E bs \in UNION { [1..k -> SkipBlockSet] : k \in 0..MaxRecords }, record \in BOOLEAN :
    Start(JoinLines(Flatten(bs)), record)

\* a block: a directive with or without arguments, and no separator, an empty
\* Expected, a single-separator or a double-separator Expected
CarryBlockSet ==
  { <<dir>> \o exp :
      dir \in { <<"a">>, <<"b", " ", "k">>, <<"b", " ", "k", "=", "v">> },
      exp \in { <<>>,
                <<Separator, <<>> >>,
                <<Separator, <<"x">>, <<>> >>,
                <<Separator, Separator, <<"x">>, <<>>, <<"y">>, Separator, Separator>> } }

\* a file of at most MaxBlocks blocks
InitCarry ==
  \E bs \in UNION { [1..k -> CarryBlockSet] : k \in 0..MaxBlocks }, record \in BOOLEAN :
    Start(JoinLines(Flatten(bs)), record)

\* ----------------------------------------------------------- Whiteboard calls

\* the line indexes, column indexes and texts the handler writes
LineIdxSet == {-1, 0, 1}
ColIdxSet == {-1, 0, 1, 3}
TextSet == { <<>>, <<"a">>, <<" ">>, <<"b", "c", "d">> }
IndentSet == {0, 2}

\* wb.Write(lineIdx, colIdx, s)
WriteCall ==
  /\ wb.pc = "write"
  /\ Len(wb.writes) < MaxWrites
  /\ \E lineIdx \in LineIdxSet, colIdx \in ColIdxSet, s \in TextSet :
       wb' = writeCall(wb, lineIdx, colIdx, s)
  /\ UNCHANGED <<readerVars, parse, call, yaml>>

\* return wb.String(), or wb.Indented(indent)
RenderCall ==
  /\ wb.pc = "write"
  /\ \E indent \in IndentSet : wb' = renderCall(wb, indent)
  /\ UNCHANGED <<readerVars, parse, call, yaml>>

NextBoard == WriteCall \/ RenderCall

\* var wb Whiteboard in the handler
InitBoard ==
  /\ NoReader
  /\ parse = NoParse
  /\ call = NoCall
  /\ yaml = NoYAML
  /\ wb = [NoBoard EXCEPT !.pc = "write"]

Spec == Init /\ [][Next]_vars
SpecDouble == InitDouble /\ [][Next]_vars
SpecBody == InitBody /\ [][Next]_vars
SpecRewrite == InitRewrite /\ [][Next]_vars
SpecLine == InitLine /\ [][NextLine]_vars
SpecContinued == InitContinued /\ [][Next]_vars
SpecGap == InitGap /\ [][Next]_vars
SpecReflect == InitReflect /\ [][NextReflect]_vars
SpecYAML == InitYAML /\ [][NextYAML]_vars
SpecSkip == InitSkip /\ [][NextSkip]_vars
SpecArgs == InitLine /\ [][NextArgs]_vars
SpecCarry == InitCarry /\ [][Next]_vars
SpecBoard == InitBoard /\ [][NextBoard]_vars
\* the loop of runTestInternal runs on: weak fairness of NextCall \/ RunDirective,
\* written with the guards of the two actions (pc = "next", pc = "run") in
\* place of ENABLED <<NextCall \/ RunDirective>>_vars
LoopRunsOn ==
  \/ []<>(pc \notin {"next", "run"})
  \/ []<><<NextCall \/ RunDirective>>_vars

SpecRead == InitRewrite /\ [][NextRead]_vars /\ LoopRunsOn

\* ------------------------------------------------------------------ claims

\* the lines of the stream, and the line numbers of the block just read
lines == scanner.lines

\* the bytes of lines a..b of the stream
Text(a, b) == JoinLines(SubSeq(lines, a, b))

\* Next has just returned true
Returned == pc = "run"

\* the first line number >= a at which two successive "----" lines start
\* (Len(lines) + 1 when there are none)
FirstPair(a) ==
  IF \E k \in a..(Len(lines) - 1) : lines[k] = Separator /\ lines[k + 1] = Separator
  THEN CHOOSE k \in a..(Len(lines) - 1) :
         /\ lines[k] = Separator /\ lines[k + 1] = Separator
         /\ \A j \in a..(k - 1) : ~(lines[j] = Separator /\ lines[j + 1] = Separator)
  ELSE Len(lines) + 1

\* C1 as stated: in the double-separator form, whichever two successive "----"
\* lines the writer meant as the closing pair, every line between the opening
\* pair and that pair, "----" lines included, is in Expected, in order
C1_Original ==
  (Returned /\ blk.form = "double") =>
    \A k \in (blk.sep + 2)..(Len(lines) - 1) :
      (lines[k] = Separator /\ lines[k + 1] = Separator)
        => data.Expected = Text(blk.sep + 2, k - 1)

\* C1 amended: in the double-separator form the capture of Expected ends at the
\* first two successive "----" lines after the opening pair, or at the end of the
\* stream; Expected holds every line before them, in order, so a "----" line that
\* is followed by another line is kept
C1_FirstPairCloses ==
  (Returned /\ blk.form = "double") =>
    /\ data.Expected = Text(blk.sep + 2, FirstPair(blk.sep + 2) - 1)
    /\ scanner.line = IF FirstPair(blk.sep + 2) > Len(lines) THEN Len(lines)
                      ELSE FirstPair(blk.sep + 2) + 1

\* a "----" content line followed by "x" is kept and the closing pair still ends
\* the capture
C1_Witness ==
  /\ Returned /\ blk.form = "double" /\ pass = 1
  /\ data.Expected = Fprintln(Fprintln(<<>>, Separator), <<"x">>)
  /\ scanner.line = blk.sep + 5

\* the first line number >= a of a blank line (Len(lines) + 1 when there is none)
FirstBlank(a) ==
  IF \E k \in a..Len(lines) : IsBlank(lines[k])
  THEN CHOOSE k \in a..Len(lines) :
         IsBlank(lines[k]) /\ \A j \in a..(k - 1) : ~IsBlank(lines[j])
  ELSE Len(lines) + 1

\* C2: in the single-separator form Expected is the lines after the separator up
\* to, not including, the first empty or whitespace-only line (or the end of the
\* stream), each followed by a newline; no line of Expected is blank
C2_SingleEndsAtBlank ==
  (Returned /\ blk.form = "single") =>
    /\ data.Expected = Text(blk.sep + 1, FirstBlank(blk.sep + 1) - 1)
    /\ \A i \in 1..Len(ScanLines(data.Expected)) : ~IsBlank(ScanLines(data.Expected)[i])

\* a single-separator section ended by a whitespace-only line
C2_Witness ==
  /\ Returned /\ blk.form = "single" /\ pass = 1
  /\ data.Expected = Fprintln(<<>>, <<"x">>)
  /\ scanner.line = blk.sep + 2
  /\ lines[scanner.line] = <<" ">>

\* C3: in the double-separator form every blank line before the closing pair is
\* a line of Expected, unchanged and at the place it has in the file, and the
\* capture never ends at a blank line
C3_DoubleKeepsBlank ==
  (Returned /\ blk.form = "double") =>
    /\ \A k \in (blk.sep + 2)..(FirstPair(blk.sep + 2) - 1) :
         IsBlank(lines[k]) =>
           /\ k - blk.sep - 1 <= Len(ScanLines(data.Expected))
           /\ ScanLines(data.Expected)[k - blk.sep - 1] = lines[k]
    /\ \/ scanner.line = Len(lines)
       \/ lines[scanner.line] = Separator /\ lines[scanner.line - 1] = Separator

\* a double-separator section with an empty and a whitespace-only line, closed by
\* the pair
C3_Witness ==
  /\ Returned /\ blk.form = "double" /\ pass = 1
  /\ data.Expected = <<NL, " ", NL>>
  /\ scanner.line = blk.sep + 5

\* the first line number >= a of a line equal to "----" (Len(lines) + 1 if none)
FirstSeparator(a) ==
  IF \E k \in a..Len(lines) : lines[k] = Separator
  THEN CHOOSE k \in a..Len(lines) :
         lines[k] = Separator /\ \A j \in a..(k - 1) : lines[j] # Separator
  ELSE Len(lines) + 1

\* C4: Input is the trimmed text of the lines between the directive line and the
\* first following line equal to "----"; blank lines, "#" lines and "---- " do
\* not end it
C4_InputUpToSeparator ==
  Returned =>
    /\ data.Input = TrimSpace(Text(blk.pos + 1, FirstSeparator(blk.pos + 1) - 1))
    /\ blk.sep = IF FirstSeparator(blk.pos + 1) > Len(lines) THEN 0
                 ELSE FirstSeparator(blk.pos + 1)

\* an input section holding "---- ", a blank line and a "#" line
C4_Witness ==
  /\ Returned /\ pass = 1
  /\ blk.sep = 5
  /\ data.Input = <<"-", "-", "-", "-", " ", NL, NL, "#">>

\* C5: when no line after the directive line equals "----", Next returns true
\* for the record (a stream that starts with a directive line never ends the
\* first call with false), Expected is empty and Input is the trimmed text of
\* every line up to the end of the stream
C5_NoSeparator ==
  /\ (Returned /\ FirstSeparator(blk.pos + 1) > Len(lines)) =>
       /\ data.Cmd # <<>>
       /\ data.Expected = <<>>
       /\ data.Input = TrimSpace(Text(blk.pos + 1, Len(lines)))
       /\ scanner.line = Len(lines)
  /\ (recs = <<>> /\ lines # <<>> /\ ParseLine(NoPos, lines[1]).cmd # <<>>) => pc = "next"

\* a directive followed by two lines and the end of the stream
C5_Witness ==
  /\ Returned /\ pass = 1 /\ blk.form = "none"
  /\ data.Input = <<"x", NL, NL, "#">>
  /\ scanner.line = 4

\* line k of the stream, trimmed
Trimmed(k) == TrimSpace(lines[k])

RECURSIVE IsHead(_, _)
\* line k starts a logical line when reading starts at line a: it is line a, or
\* the line before it does not continue onto it (a line continues onto the next
\* when it ends in a backslash, unless it is a comment starting a logical line)
IsHead(k, a) ==
  \/ k = a
  \/ ~HasSuffix(Trimmed(k - 1), <<"\\">>)
  \/ IsHead(k - 1, a) /\ HasPrefix(Trimmed(k - 1), <<"#">>)

\* line k is a directive line: it starts a logical line, is no comment, and the
\* tokenizer finds a command on the logical line
IsDirective(k, a) ==
  /\ IsHead(k, a)
  /\ ~HasPrefix(Trimmed(k), <<"#">>)
  /\ ParseLine(NoPos, joinContinuation(lines, k, Trimmed(k), NoBuffer).line).cmd # <<>>

\* C6: each call of Next that returns true returns the first directive line of
\* the rest of the stream, so the records come in file order, one per directive
\* line, their line numbers increasing and each call starting where the last
\* ended; Next returns false exactly when no directive line remains, and the
\* record then has an empty Command
C6_RecordsInOrder ==
  /\ pc = "eof" =>
       /\ data.Cmd = <<>>
       /\ scanner.line = Len(lines)
       /\ \A k \in (blk.start + 1)..Len(lines) : ~IsDirective(k, blk.start + 1)
  /\ pc = "run" =>
       /\ data.Cmd # <<>>
       /\ data = recs[Len(recs)].data
       /\ IsDirective(blk.first, blk.start + 1)
       /\ \A k \in (blk.start + 1)..(blk.first - 1) : ~IsDirective(k, blk.start + 1)
  /\ recs # <<>> => recs[1].blk.start = 0
  /\ \A i \in 1..(Len(recs) - 1) :
       /\ recs[i].data.Pos.line < recs[i + 1].data.Pos.line
       /\ recs[i].blk.first < recs[i + 1].blk.first
       /\ recs[i + 1].blk.start = recs[i].blk.end
       /\ recs[i].blk.end >= recs[i].blk.pos

\* two records were returned, then false
C6_Witness ==
  /\ pc = "eof" /\ pass = 1
  /\ Len(recs) = 2
  /\ recs[1].data.Pos.line = 1 /\ recs[1].blk.end = 3
  /\ recs[2].data.Pos.line = 4

\* the bytes of lines a..b as they stand in the file read: the last line of the
\* file may lack its newline
SourceText(a, b) ==
  IF b >= a /\ b = Len(lines) /\ ~HasSuffix(source, <<NL>>)
  THEN SubSeq(Text(a, b), 1, Len(Text(a, b)) - 1)
  ELSE Text(a, b)

\* some line of the text s is empty or whitespace only
HasBlankLineIn(s) == \E i \in 1..Len(ScanLines(s)) : IsBlank(ScanLines(s)[i])

\* the two forms of an Expected section holding the actual output a
DoubleForm(a) == JoinLines(<<Separator, Separator>>) \o a \o JoinLines(<<Separator, Separator>>)
SingleForm(a) == JoinLines(<<Separator>>) \o a \o <<NL>>
SectionOf(a) == IF HasBlankLineIn(a) THEN DoubleForm(a) ELSE SingleForm(a)

\* where the part of record r that is not its Expected section ends
EchoEnd(r) == IF r.blk.sep > 0 THEN r.blk.sep - 1 ELSE r.blk.end

\* the line after the last block
TailStart == IF recs = <<>> THEN 1 ELSE recs[Len(recs)].blk.end + 1

RECURSIVE Regenerated(_)
\* the file from record k on: what precedes each Expected section as it stands in
\* the file read, each section holding the actual output, and the lines after
\* the last block
Regenerated(k) ==
  IF k > Len(recs) THEN SourceText(TailStart, Len(lines))
  ELSE SourceText(recs[k].blk.start + 1, EchoEnd(recs[k]))
         \o SectionOf(actualOf(outs[k])) \o Regenerated(k + 1)

RECURSIVE RegeneratedLines(_)
\* the same, every echoed line ended by a newline
RegeneratedLines(k) ==
  IF k > Len(recs) THEN Text(TailStart, Len(lines))
  ELSE Text(recs[k].blk.start + 1, EchoEnd(recs[k]))
         \o SectionOf(actualOf(outs[k])) \o RegeneratedLines(k + 1)

Rewritten == pc = "done" /\ ~output.nil

\* C7 as stated: the regenerated file is the file read with each Expected
\* section replaced by the actual output, everything else byte for byte (the
\* blank line ending the last section may be missing at the end of the file)
C7_Original ==
  Rewritten =>
    \/ output.buf = Regenerated(1)
    \/ /\ recs # <<>> /\ TailStart > Len(lines)
       /\ output.buf \o <<NL>> = Regenerated(1)

\* C7 amended: the regenerated file holds, in order, every line outside the
\* Expected sections, each ended by a newline (also a last line that had none),
\* and each Expected section holds the actual output of its record; when this
\* text is longer than two bytes and ends in a blank line, that one blank line
\* is removed
C7_FrameUpToTrailingBlank ==
  Rewritten =>
    IF /\ Len(RegeneratedLines(1)) > 2
       /\ HasSuffix(RegeneratedLines(1), <<NL, NL>>)
    THEN output.buf \o <<NL>> = RegeneratedLines(1)
    ELSE output.buf = RegeneratedLines(1)

\* a comment, a directive continued over two lines and its separator, rewritten
C7_Witness ==
  /\ Rewritten /\ pass = 1
  /\ Len(recs) = 1
  /\ lines[1] = <<"#">>
  /\ recs[1].blk.first = 2 /\ recs[1].blk.pos = 3 /\ recs[1].blk.sep = 4
  /\ outs[1] = <<"x">>

\* C8: in rewrite mode runDirective appends "----", "----", output, "----",
\* "----" for an output with a blank line and "----", output, blank line for an
\* output without; read again, the Expected of a record whose output has a blank
\* line is that output, blank lines included (stated for the first record, whose
\* place in the rewritten file does not depend on other outputs)
C8_FormByBlankLine ==
  /\ (pc = "next" /\ outs # <<>> /\ ~rewrite.nil) =>
        HasSuffix(rewrite.buf,
                  IF HasBlankLineIn(actualOf(outs[Len(outs)]))
                  THEN DoubleForm(actualOf(outs[Len(outs)]))
                  ELSE SingleForm(actualOf(outs[Len(outs)])))
  /\ (pass = 2 /\ Returned /\ Len(recs) = 1 /\ prev.outs # <<>>
        /\ HasBlankLineIn(actualOf(prev.outs[1]))) =>
        /\ blk.form = "double"
        /\ data.Expected = actualOf(prev.outs[1])

\* an output with a blank line in the middle, read back from the rewritten file
C8_Witness ==
  /\ pass = 2 /\ Returned /\ Len(recs) = 1
  /\ prev.outs # <<>> /\ prev.outs[1] = <<"x", NL, NL, "x">>
  /\ data.Expected = <<"x", NL, NL, "x", NL>>

\* C9: rewriting the rewritten file with the same outputs gives the same bytes
\* (stated for rewritten files that do not end in a blank line, so that the
\* removal of a trailing blank line plays no part)
C9_Idempotent ==
  (pass = 2 /\ Rewritten /\ ~HasSuffix(prev.output, <<NL, NL>>)) =>
     output.buf = prev.output

\* a line the tokenizer rejects: no comment, no continuation, and splitDirectives
\* returns an error for it
Rejected(k) ==
  /\ ~HasPrefix(Trimmed(k), <<"#">>)
  /\ ~HasSuffix(Trimmed(k), <<"\\">>)
  /\ ~splitDirectives(NoPos, Trimmed(k), <<>>).err.nil

\* C10: a call of Next that meets a rejected line where it looks for a directive
\* aborts: it neither skips the line and returns a later record nor returns false
C10_RejectedLineAborts ==
  /\ pc = "run" => \A k \in (blk.start + 1)..(blk.first - 1) :
                     IsHead(k, blk.start + 1) => ~Rejected(k)
  /\ pc = "eof" => \A k \in (blk.start + 1)..Len(lines) :
                     IsHead(k, blk.start + 1) => ~Rejected(k)

\* ------------------------------------------------------- claims on ParseLine

Parsed == parse.pc = "parsed"

\* the characters of a bare value: letters, digits and @=+/.,_-
BareChars == Letters \cup Digits \cup {"@", "=", "+", "/", ".", ",", "_", "-"}

\* the characters of an identifier as C14 gives them, [-a-zA-Z0-9_./], and with
\* the comma
ClaimedIdentChars == Letters \cup Digits \cup {"-", "_", ".", "/"}
CommaIdentChars == ClaimedIdentChars \cup {","}

IsIdent(t, class) == t # <<>> /\ \A i \in 1..Len(t) : t[i] \in class
IsBare(v) == \A i \in 1..Len(v) : v[i] \in BareChars
IsList(v) ==
  /\ Len(v) >= 2 /\ v[1] = "(" /\ v[Len(v)] = ")"
  /\ \A i \in 2..(Len(v) - 1) : v[i] # ")"

\* t is a bare identifier, key=value or key=(v1,v2,...)
IsToken(t, class) ==
  \/ IsIdent(t, class)
  \/ \E p \in 1..Len(t) :
       /\ t[p] = "="
       /\ IsIdent(SubSeq(t, 1, p - 1), class)
       /\ \/ IsBare(SubSeq(t, p + 1, Len(t)))
          \/ IsList(SubSeq(t, p + 1, Len(t)))

\* the number of spaces s starts with
LeadingSpaces(s) ==
  CHOOSE a \in 0..Len(s) : (\A i \in 1..a : s[i] = " ") /\ (a = Len(s) \/ s[a + 1] # " ")

\* after its leading spaces, s holds a token that ends at index b and is
\* followed by a space or by the end of s
TokenEndsAt(s, b, class) ==
  /\ b > LeadingSpaces(s)
  /\ IsToken(SubSeq(s, LeadingSpaces(s) + 1, b), class)
  /\ (b = Len(s) \/ s[b + 1] = " ")

StartsWithToken(s, class) == \E b \in 1..Len(s) : TokenEndsAt(s, b, class)

RECURSIVE Sentence(_, _)
\* s is a sequence of tokens, each after any number of spaces and followed by
\* one space or the end of the line
Sentence(s, class) ==
  \/ s = <<>>
  \/ \E b \in 1..Len(s) :
       /\ TokenEndsAt(s, b, class)
       /\ Sentence(SubSeq(s, b + 2, Len(s)), class)

RECURSIVE TokensOf(_, _)
\* the tokens of a sentence, in order
TokensOf(s, class) ==
  IF s = <<>> \/ ~StartsWithToken(s, class) THEN <<>>
  ELSE LET b == CHOOSE b \in 1..Len(s) : TokenEndsAt(s, b, class)
       IN <<SubSeq(s, LeadingSpaces(s) + 1, b)>> \o TokensOf(SubSeq(s, b + 2, Len(s)), class)

\* C11: the error of a rejected line holds the whole line and the column of the
\* first character not covered by the tokens matched so far: what precedes the
\* column is a sequence of tokens, what starts at it does not start with a
\* token; column 4 for "xx =" and "xx +++"
C11_ColumnAndLine ==
  (Parsed /\ ~parse.res.err.nil) =>
    /\ parse.res.err.line = parse.line
    /\ parse.res.err.column \in 1..Len(parse.line)
    /\ Sentence(SubSeq(parse.line, 1, parse.res.err.column - 1), CommaIdentChars)
    /\ ~StartsWithToken(SubSeq(parse.line, parse.res.err.column, Len(parse.line)),
                        CommaIdentChars)
    /\ parse.line \in {<<"x", "x", " ", "=">>, <<"x", "x", " ", "+", "+", "+">>} =>
         parse.res.err.column = 4

C11_Witness ==
  /\ Parsed
  /\ parse.line = <<"x", "x", " ", "+", "+", "+">>
  /\ parse.res.err = [nil |-> FALSE, column |-> 4, line |-> parse.line]

\* the key of a token, and what follows its first "=" (the token has one)
KeyOf(t) == IF IndexByte(t, "=") = 0 THEN t ELSE SubSeq(t, 1, IndexByte(t, "=") - 1)
ValueOf(t) == SubSeq(t, IndexByte(t, "=") + 1, Len(t))

\* the comma-separated elements of what the parentheses of v enclose, trimmed
ElementsOf(v) ==
  [i \in 1..Len(Split(SubSeq(v, 2, Len(v) - 1), ",")) |->
     TrimSpace(Split(SubSeq(v, 2, Len(v) - 1), ",")[i])]

InParens(v) == Len(v) >= 2 /\ v[1] = "(" /\ v[Len(v)] = ")"

\* the argument tokens of an accepted line
ArgTokens == Tail(TokensOf(parse.line, CommaIdentChars))

Accepted == Parsed /\ parse.res.err.nil /\ parse.res.cmd # <<>>

\* C12 as stated: the Values of every key=value token are the trimmed elements
\* of a value written in parentheses, and the value itself otherwise
C12_Original ==
  Accepted =>
    \A i \in 1..Len(ArgTokens) :
      IndexByte(ArgTokens[i], "=") > 0 =>
        parse.res.cmdArgs[i].Vals =
          IF InParens(ValueOf(ArgTokens[i])) THEN ElementsOf(ValueOf(ArgTokens[i]))
          ELSE <<ValueOf(ArgTokens[i])>>

\* C12 amended: the Values are the trimmed elements when the parentheses
\* enclose at least one character, and the value itself otherwise, "()" included
C12_ValuesOfToken ==
  Accepted =>
    /\ Len(parse.res.cmdArgs) = Len(ArgTokens)
    /\ \A i \in 1..Len(ArgTokens) :
         IndexByte(ArgTokens[i], "=") > 0 =>
           parse.res.cmdArgs[i].Vals =
             IF InParens(ValueOf(ArgTokens[i])) /\ Len(ValueOf(ArgTokens[i])) > 2
             THEN ElementsOf(ValueOf(ArgTokens[i]))
             ELSE <<ValueOf(ArgTokens[i])>>

C12_Witness ==
  /\ Accepted
  /\ parse.line = <<"x", "x", " ", "k", "=", "(", "1", ",", " ", "2", ")", " ", "k", "=", "a", ",", "b">>
  /\ parse.res.cmdArgs[1].Vals = << <<"1">>, <<"2">> >>
  /\ parse.res.cmdArgs[2].Vals = << <<"a", ",", "b">> >>

\* C13: the command is the first token and the arguments are the other tokens,
\* one entry each and in the order of the line, equal keys included: entry i has
\* the key of token i + 1, and values exactly when that token has a "="
C13_OneEntryPerToken ==
  Accepted =>
    /\ parse.res.cmd = Head(TokensOf(parse.line, CommaIdentChars))
    /\ Len(parse.res.cmdArgs) = Len(ArgTokens)
    /\ \A i \in 1..Len(ArgTokens) :
         /\ parse.res.cmdArgs[i].Key = KeyOf(ArgTokens[i])
         /\ (parse.res.cmdArgs[i].Vals = <<>>) <=> (IndexByte(ArgTokens[i], "=") = 0)
         /\ Len(parse.res.cmdArgs[i].Vals) = 1 /\ ~InParens(ValueOf(ArgTokens[i])) =>
              parse.res.cmdArgs[i].Vals[1] = ValueOf(ArgTokens[i])

C13_Witness ==
  /\ Accepted
  /\ parse.line = <<"x", "x", " ", "a", "=", "b", " ", "a", "=", "c">>
  /\ parse.res.cmdArgs = << [Key |-> <<"a">>, Vals |-> << <<"b">> >>],
                            [Key |-> <<"a">>, Vals |-> << <<"c">> >>] >>

NothingParsed(r) == r.cmd = <<>> /\ r.cmdArgs = <<>>

\* C15 as stated: a blank line and a line starting with "#" give an empty
\* command, no arguments and no error
C15_Original ==
  (Parsed /\ (IsBlank(parse.line) \/ HasPrefix(parse.line, <<"#">>))) =>
    NothingParsed(parse.res) /\ parse.res.err.nil

\* C15 amended: the empty line gives an empty command, no arguments and no
\* error; a non-empty blank line and a line starting with "#" give an empty
\* command, no arguments and an error at column 1
C15_EmptyLineOnly ==
  /\ (Parsed /\ parse.line = <<>>) =>
       NothingParsed(parse.res) /\ parse.res.err.nil
  /\ (Parsed /\ parse.line # <<>> /\ (IsBlank(parse.line) \/ HasPrefix(parse.line, <<"#">>))) =>
       /\ NothingParsed(parse.res)
       /\ parse.res.err = [nil |-> FALSE, column |-> 1, line |-> parse.line]

C15_Witness ==
  /\ Parsed
  /\ parse.line = <<>>
  /\ parse.res = [cmd |-> <<>>, cmdArgs |-> <<>>, err |-> NoColumnErr]

Reparsed == parse.pc = "reparsed"

SameDirective ==
  /\ parse.again.err.nil
  /\ parse.again.cmd = parse.res.cmd
  /\ parse.again.cmdArgs = parse.res.cmdArgs

\* C16 as stated: the directive line written from any command and arguments the
\* tokenizer produced parses to the same command and arguments
C16_Original == Reparsed => SameDirective

\* C16 amended: it does when every argument with exactly one value has a value
\* of bare-value characters only
C16_RoundTripBare ==
  (Reparsed /\ \A i \in 1..Len(parse.res.cmdArgs) :
                 Len(parse.res.cmdArgs[i].Vals) = 1 => IsBare(parse.res.cmdArgs[i].Vals[1])) =>
    SameDirective

C16_Witness ==
  /\ Reparsed
  /\ parse.line = <<"x", "x", " ", "k", "=", "(", "1", ",", " ", "2", ")", " ", "k", "=">>
  /\ parse.text = parse.line
  /\ SameDirective

\* ---------------------------------------------------- claims on the reader (2)

\* the identifier characters of the expression the reader's ParseLine uses
ReaderIdentChars == Letters \cup Digits \cup {"-", "_", ",", "."}

\* line k without its backslash, trimmed
Part(k) == TrimSpace(TrimSuffix(Trimmed(k), <<"\\">>))

\* the file is one directive written over its lines: every line but the last
\* ends in a backslash
IsContinued ==
  /\ lines # <<>>
  /\ \A k \in 1..(Len(lines) - 1) : HasSuffix(Trimmed(k), <<"\\">>)
  /\ ~HasSuffix(Trimmed(Len(lines)), <<"\\">>)

\* the same directive on one line, one space between the parts
OneLine == JoinWith([k \in 1..Len(lines) |-> Part(k)], <<" ">>)

\* the first call of Next has returned
FirstCallDone ==
  /\ pass = 1
  /\ \/ pc = "run" /\ Len(recs) = 1
     \/ pc = "eof" /\ recs = <<>>

\* Next gave the command and arguments of the line l
SameAsLine(l) ==
  IF ParseLine(NoPos, l).cmd = <<>> THEN pc = "eof"
  ELSE /\ pc = "run"
       /\ data.Cmd = ParseLine(NoPos, l).cmd
       /\ data.CmdArgs = ParseLine(NoPos, l).cmdArgs

\* C17 as stated: a directive written over several lines gives the Command and
\* Arguments of its parts written on one line with one space between them
\* (stated for lines that hold more than the backslash)
C17_Original ==
  (FirstCallDone /\ IsContinued /\ \A k \in 1..Len(lines) : Part(k) # <<>>) =>
    SameAsLine(OneLine)

\* C17 amended: it does when every line, its backslash removed, is a non-empty
\* sequence of complete tokens
C17_ContinuedBetweenTokens ==
  (/\ FirstCallDone
   /\ IsContinued
   /\ \A k \in 1..Len(lines) : Part(k) # <<>> /\ Sentence(Part(k), ReaderIdentChars)) =>
     /\ pc = "run"
     /\ blk.first = 1 /\ blk.pos = Len(lines)
     /\ SameAsLine(OneLine)

\* "a \", "b\", "k=v" read as the directive a with the arguments b and k=v
C17_Witness ==
  /\ FirstCallDone /\ pc = "run"
  /\ lines = << <<"a", " ", "\\">>, <<"b", "\\">>, <<"k", "=", "v">> >>
  /\ data.Cmd = <<"a">>
  /\ data.CmdArgs = << [Key |-> <<"b">>, Vals |-> <<>>],
                       [Key |-> <<"k">>, Vals |-> << <<"v">> >>] >>

\* what C18 compares of a record
Fields(d) == [Cmd |-> d.Cmd, CmdArgs |-> d.CmdArgs, Input |-> d.Input, Expected |-> d.Expected]

RECURSIVE RecordsFrom(_, _)
\* the records successive calls of Next return on the lines ls, start of them read
RecordsFrom(ls, start) ==
  LET r == nextResult(ls, start, NoBuffer)
  IN IF r.pc # "run" THEN <<>> ELSE <<Fields(r.data)>> \o RecordsFrom(ls, r.line)

\* the records Next has returned
Records == [j \in 1..Len(recs) |-> Fields(recs[j].data)]

InsertLine(ls, q, f) == SubSeq(ls, 1, q) \o <<f>> \o SubSeq(ls, q + 1, Len(ls))
RemoveLine(ls, q) == SubSeq(ls, 1, q - 1) \o SubSeq(ls, q + 1, Len(ls))

\* a blank line and comment lines
Fillers == { <<>>, <<"#">>, <<" ", "#", " ", "c">> }

IsFiller(l) == IsBlank(l) \/ HasPrefix(TrimSpace(l), <<"#">>)

\* the places between the end of the block of record i - 1 and the directive
\* line of record i: q lines of the file precede such a place
Gap(i) == recs[i - 1].blk.end .. (recs[i].blk.first - 1)

AllRead == pc = "eof" /\ pass = 1

\* C18: a blank or comment line inserted anywhere between the end of a block
\* and the next directive line, or removed from there, leaves the sequence of
\* records (Command, Arguments, Input, Expected) as it was
C18_FillersIgnored ==
  AllRead =>
    \A i \in 2..Len(recs) : \A q \in Gap(i) :
      /\ \A f \in Fillers : RecordsFrom(InsertLine(lines, q, f), 0) = Records
      /\ (q > recs[i - 1].blk.end /\ IsFiller(lines[q])) =>
           RecordsFrom(RemoveLine(lines, q), 0) = Records

\* ----------------------------------------------------- claims on reflectCall

CallReturned == call.pc = "returned"

NothingReturned == call.ret.in = Nil /\ call.ret.exp = Nil /\ call.ret.out = Nil

\* C19: a panic raised in populate or in the function does not leave
\* reflectCall: the call returns, with an error whose message is the value of
\* the panic and with nil for in, exp and out
C19_PanicReturnedAsError ==
  /\ call.pc \in {"idle", "start", "populate", "invoke", "return", "returned"}
  /\ call.panic.raised => call.pc \in {"return", "returned"}
  /\ (CallReturned /\ call.panic.raised) =>
       /\ call.ret.err = Errorf(call.panic.value)
       /\ NothingReturned

\* the function panicked with "boom" after populate had set in and exp
C19_Witness ==
  /\ CallReturned
  /\ call.name = "errs" /\ call.invoked
  /\ call.in = Val(0) /\ call.exp = Val(1)
  /\ call.ret = [in |-> Nil, exp |-> Nil, out |-> Nil, err |-> Errorf("boom")]

\* C20: the function is invoked only after populate has returned nil; when
\* populate returns an error, reflectCall returns that error and nothing else,
\* and the function has not been invoked
C20_PopulateBeforeCall ==
  /\ call.invoked => call.populated = "nil"
  /\ call.pc = "invoke" => call.populated = "nil"
  /\ (CallReturned /\ call.populated = "error") =>
       /\ call.ret.err = Errorf(call.pop.msg)
       /\ NothingReturned
       /\ ~call.invoked

\* populate returned "broken"
C20_Witness ==
  /\ CallReturned
  /\ call.name = "errs"
  /\ call.pop.kind = "error" /\ call.pop.msg = "broken"
  /\ call.populated = "error"
  /\ ~call.invoked
  /\ call.ret.err = Errorf("broken")

WrongShape(name) ==
  /\ name \in DriverNames
  /\ functionAndType(name).ok
  /\ functionAndType(name).numIn # 1 \/ functionAndType(name).numOut # 1

NeverInvoked == call.nPopulate = 0 /\ call.nCall = 0 /\ ~call.invoked

\* C21: with a name that is not in the map reflectCall returns the error
\* driver "<name>" not found, with a function that does not have one parameter
\* and one result the error "function does not take and return one value"; in
\* both cases nothing else is returned and neither populate nor the function is
\* ever called
C21_LookupErrors ==
  /\ (call.pc # "idle" /\ (call.name \notin DriverNames \/ WrongShape(call.name))) =>
       /\ NeverInvoked
       /\ call.pc \in {"start", "returned"}
  /\ (CallReturned /\ call.name \notin DriverNames) =>
       /\ call.ret.err = Errorf("driver \"" \o call.name \o "\" not found")
       /\ NothingReturned
  /\ (CallReturned /\ WrongShape(call.name)) =>
       /\ call.ret.err = Errorf("function does not take and return one value")
       /\ NothingReturned

\* a function of two parameters was looked up
C21_Witness ==
  /\ CallReturned
  /\ call.name = "two"
  /\ call.ret.err = Errorf("function does not take and return one value")
  /\ NeverInvoked

\* C22: when reflectCall returns no error, it returns the input and the
\* expected value as populate wrote them and the value the function returned
\* for that input, and populate and the function were each called once
C22_ReturnsPopulated ==
  (CallReturned /\ call.ret.err.nil) =>
    /\ call.ret.in = Val(call.pop.in)
    /\ call.ret.exp = Val(call.pop.exp)
    /\ call.ret.out = Val(fVal(call.name, call.pop.in, 0).out)
    /\ call.nPopulate = 1
    /\ call.nCall = 1

\* popEven and isEven of TestReflectCall: in 1, expected false, out false
C22_Witness ==
  /\ CallReturned
  /\ call.name = "even"
  /\ call.ret = [in |-> Val(1), exp |-> Val(0), out |-> Val(0), err |-> NilError]
  /\ call.nPopulate = 1 /\ call.nCall = 1

\* ------------------------------------------------ claims on runYAMLInternal

YAMLEnded == yaml.pc \in {"done", "fatal"}

\* the test case k had a dispatch error
DispatchError(k) == ~yaml.ran[k].ret.err.nil

\* t was told what about the test case k
Reported(kind, k, what) ==
  \E j \in 1..Len(yaml.log) : yaml.log[j] = [kind |-> kind, case |-> k, what |-> what]

\* C23 as claimed: when the run has ended, every test case of the file was run
C23_Original == YAMLEnded => Len(yaml.ran) = Len(yaml.pairs)

\* C23: a dispatch error on a test case is reported with t.Fatal and ends the
\* run there: it is the last test case run and the last thing reported, and a
\* run that reaches its end had no dispatch error
C23_FatalEndsRun ==
  /\ \A k \in 1..Len(yaml.ran) :
       DispatchError(k) =>
         /\ k = Len(yaml.ran)
         /\ yaml.pc = "fatal"
         /\ yaml.i = k
         /\ yaml.log[Len(yaml.log)] =
              [kind |-> "Fatal", case |-> k, what |-> yaml.ran[k].ret.err.msg]
  /\ yaml.pc = "fatal" => (yaml.ran # <<>> /\ DispatchError(Len(yaml.ran)))
  /\ \A j \in 1..Len(yaml.log) : yaml.log[j].kind = "Fatal" => j = Len(yaml.log)

\* errs panicked in the first of two test cases: the second was not run
C23_Witness ==
  /\ yaml.pc = "fatal"
  /\ Len(yaml.pairs) = 2
  /\ Len(yaml.ran) = 1
  /\ yaml.ran[1].name = "errs"
  /\ yaml.ran[1].ret.err = Errorf("boom")
  /\ yaml.log = <<[kind |-> "Fatal", case |-> 1, what |-> "boom"]>>

\* the test case k returned an output that is not the expected value
Mismatch(k) ==
  /\ ~DispatchError(k)
  /\ yaml.ran[k].ret.exp # yaml.ran[k].ret.out

\* C24: a test case whose output differs from the expected value, and no
\* other, is reported with t.Errorf as a mismatch, and the run goes on: it is
\* not ended by that test case, and when it has ended the test case after it
\* was run
C24_MismatchReported ==
  \A k \in 1..Len(yaml.ran) :
    /\ ~DispatchError(k) => (Mismatch(k) <=> Reported("Errorf", k, "mismatch"))
    /\ Mismatch(k) =>
         /\ ~Reported("Fatal", k, "mismatch")
         /\ yaml.pc = "fatal" => k < Len(yaml.ran)
         /\ (YAMLEnded /\ k < Len(yaml.pairs)) => Len(yaml.ran) > k

\* add returned 1 where 2 was expected, and the second test case was run
C24_Witness ==
  /\ Len(yaml.ran) = 2
  /\ yaml.ran[1].name = "add"
  /\ yaml.ran[1].ret.exp = Val(2) /\ yaml.ran[1].ret.out = Val(1)
  /\ yaml.log[1] = [kind |-> "Errorf", case |-> 1, what |-> "mismatch"]

\* the documents of the file that follow those of the test cases
Leftover ==
  SubSeq(NewDecoder(yaml.b), 2 * Len(yaml.pairs) + 1, Len(NewDecoder(yaml.b)))

\* t was told of something after the last test case
ReportedAtEnd ==
  \E j \in 1..Len(yaml.log) : yaml.log[j].case = 0 /\ yaml.log[j].kind = "Errorf"

\* C25: at the end of a run, a document that is not empty among those left
\* after the last test case is reported, and one empty document alone is not
C25_TrailingReported ==
  yaml.pc = "done" =>
    /\ (\E j \in 1..Len(Leftover) : Leftover[j].kind # "empty") => ReportedAtEnd
    /\ (Leftover = <<EmptyDocument>>) => ~ReportedAtEnd

\* the lines of the file that begin with "##"
HeaderLines ==
  SelectSeq([i \in 1..Len(ScanLines(yaml.b)) |-> ScanLines(yaml.b)[i]],
            LAMBDA l : HasPrefix(l, Hashes))

\* the name a header line gives
NameOf(l) == StringOf(TrimSpace(SubSeq(l, 3, Len(l))))

\* every header of the file names a function of the map that takes and returns
\* one value
ValidHeaders ==
  \A j \in 1..Len(HeaderLines) : NameOf(HeaderLines[j]) \in {"add", "errs"}

\* the file holds two documents for each header, each an int or empty
EnoughDocuments ==
  /\ Len(NewDecoder(yaml.b)) >= 2 * Len(HeaderLines)
  /\ \A j \in 1..Len(NewDecoder(yaml.b)) : NewDecoder(yaml.b)[j].kind \in {"int", "empty"}

RECURSIVE AddedUpTo(_)
\* what add has added up in the test cases 1..k
AddedUpTo(k) ==
  IF k = 0 THEN 0
  ELSE AddedUpTo(k - 1)
         + (IF yaml.ran[k].name = "add" /\ yaml.ran[k].called = 1
            THEN yaml.ran[k].ret.in.v ELSE 0)

\* the value an int takes from the document j of the file
DocumentValue(j) == Val(NewDecoder(yaml.b)[j].v)

Echo(a, b) == JoinLines(SubSeq(scanner.lines, a, b))

\* C27: in rewrite mode a call of Next leaves what the rewrite buffer held and
\* appends to it the lines it scanned, each followed by a newline, up to the
\* line before the separator: the separator and the lines read after it for
\* Expected, the line that ends the section included, are not appended
C27_AppendOnly ==
  [][pc = "next" =>
       /\ ~rewrite'.nil
       /\ blk'.start = scanner.line
       /\ blk'.end = scanner'.line
       /\ blk'.sep > 0 => scanner.lines[blk'.sep] = Separator
       /\ rewrite'.buf =
            rewrite.buf \o Echo(scanner.line + 1,
                                IF blk'.sep > 0 THEN blk'.sep - 1 ELSE scanner'.line)]_vars

\* a first call of Next read a comment, a directive, a separator and one line
\* of Expected: the comment and the directive are in the buffer
C27_Witness ==
  /\ pc = "run"
  /\ Len(recs) = 1
  /\ blk.first = 2 /\ blk.sep = 3 /\ blk.end >= 4
  /\ data.Expected # <<>>
  /\ rewrite = [nil |-> FALSE, buf |-> Echo(1, 2)]

\* C28: after a call of Next the Pos of the record is set exactly when its Cmd
\* is not empty: both are set when the call returned true, both are empty when
\* it returned false
C28_PosWithCmd ==
  /\ pc \in {"run", "eof"} => (data.Pos # NoPos <=> data.Cmd # <<>>)
  /\ pc = "run" => (data.Cmd # <<>> /\ data.Pos.line >= 1)
  /\ pc = "eof" => (data.Cmd = <<>> /\ data.Pos = NoPos)

\* Next returned true, then false: the record of the first call has both, the
\* record after the last call has neither
C28_Witness ==
  /\ pc = "eof"
  /\ Len(recs) = 1
  /\ recs[1].data.Cmd # <<>> /\ recs[1].data.Pos.line = 1
  /\ data.Cmd = <<>> /\ data.Pos = NoPos

\* ------------------------------------------------------- claims on t.Skip

\* the record k was handed to the handler
Handled(k) == k < Len(recs) \/ (k = Len(recs) /\ pc # "run")

\* the directives of the file: in the files of InitSkip, one for each separator
Directives == Cardinality({i \in 1..Len(scanner.lines) : scanner.lines[i] = Separator})

Occurrences ==
  { i \in 1..Len(parse.res.cmdArgs) : parse.res.cmdArgs[i].Key = parse.key }

\* C30: a lookup by key uses the first occurrence of the key among the
\* arguments, in the order of the line: HasArg is true exactly when the key
\* occurs, and ScanArgs reads the values of the occurrence with no occurrence
\* before it, whatever the later arguments with the same key hold; with no
\* occurrence ScanArgs ends the test
C30_FirstOccurrence ==
  parse.pc = "looked" =>
    /\ parse.has = (Occurrences # {})
    /\ parse.scan.fatal = (Occurrences = {})
    /\ \A i \in Occurrences :
         (\A j \in Occurrences : i <= j) => parse.scan.vals = parse.res.cmdArgs[i].Vals

\* the line "xx a=b a=c": the lookup of a reads b, and c is shadowed
C30_Witness ==
  /\ parse.pc = "looked"
  /\ parse.line = <<"x", "x", " ", "a", "=", "b", " ", "a", "=", "c">>
  /\ parse.key = <<"a">>
  /\ Cardinality(Occurrences) = 2
  /\ parse.has
  /\ parse.scan = [fatal |-> FALSE, vals |-> << <<"b">> >>]

\* ------------------------------------------- claims on reading back a rewrite

\* the record k of the rewritten file is the record k of the file it was made
\* from, with the output written for it as its Expected
SameAsWritten(k) ==
  /\ recs[k].data.Cmd = prev.recs[k].data.Cmd
  /\ recs[k].data.CmdArgs = prev.recs[k].data.CmdArgs
  /\ recs[k].data.Input = prev.recs[k].data.Input
  /\ recs[k].data.Expected = actualOf(prev.outs[k])

\* C31: reading a rewritten file back gives, record by record, the Command,
\* Arguments and Input of the file it was made from and, as Expected, the
\* output written for the record with its trailing newline; the rewritten
\* file has no more and no fewer records
C31_ReadBack ==
  pass = 2 =>
    /\ \A k \in 1..Len(recs) : k <= Len(prev.recs) /\ SameAsWritten(k)
    /\ pc = "done" => Len(recs) = Len(prev.recs)

\* --------------------------------------------------- claims on termination

\* Next has returned false at least twice on the file "a", "----", "", "#":
\* the last call started at the end of the stream
C32_Witness ==
  /\ pc = "eof"
  /\ scanner.lines = << <<"a">>, Separator, <<>>, <<"#">> >>
  /\ Len(recs) = 1
  /\ blk.start = 4
  /\ scanner.line = 4

\* C32: reading terminates. No call of Next reads past the lines of the
\* stream; a call that returns true has read at least one line, so that there
\* are at most as many records as lines read; Next does return false; and
\* once it has, a further call returns false again and reads and changes nothing
C32_Terminates ==
  /\ [](/\ scanner.line <= Len(scanner.lines)
        /\ Len(recs) <= scanner.line
        /\ \A k \in 1..Len(recs) : recs[k].blk.end > recs[k].blk.start)
  /\ [][pc = "eof" => /\ pc' = "eof"
                      /\ scanner' = scanner
                      /\ recs' = recs
                      /\ data' = EmptyData
                      /\ rewrite' = rewrite]_vars
  /\ <>(pc = "eof")

\* ------------------------------------------- claims on the record Next fills

\* the directive line of the record k is its command alone
NoArguments(k) == TrimSpace(scanner.lines[recs[k].blk.pos]) = recs[k].data.Cmd

\* C33: every call of Next starts from an empty record: a record read without
\* a separator has an empty Expected and a directive without arguments has no
\* Arguments, whatever the record before it held, and a call that returns
\* false leaves the empty record
C33_StartsEmpty ==
  /\ \A k \in 1..Len(recs) :
       /\ recs[k].blk.sep = 0 => recs[k].data.Expected = <<>>
       /\ NoArguments(k) => recs[k].data.CmdArgs = <<>>
  /\ pc = "eof" => data = EmptyData

\* "b k" with Expected x, and then "a" with no separator and no arguments
C33_Witness ==
  /\ pc = "run"
  /\ scanner.lines = << <<"b", " ", "k">>, Separator, <<"x">>, <<>>, <<"a">> >>
  /\ Len(recs) = 2
  /\ recs[1].data.Expected = <<"x", NL>>
  /\ Len(recs[1].data.CmdArgs) = 1
  /\ data = [EmptyData EXCEPT !.Pos = data.Pos, !.Cmd = <<"a">>]

\* the first line of the Expected section of the record k
FirstCaptured(k) ==
  IF recs[k].blk.form = "double" THEN recs[k].blk.sep + 2 ELSE recs[k].blk.sep + 1

\* C34: after every call of Next, Expected is empty or ends with a newline,
\* and it is a run of lines of the stream that starts after the separator (the
\* two separators, in the double form) and lies within the lines the call
\* read, each line as it is in the stream and followed by one newline; this
\* also when the stream ends inside the section
C34_ExpectedOfLines ==
  /\ data.Expected = <<>> \/ HasSuffix(data.Expected, <<NL>>)
  /\ \A k \in 1..Len(recs) :
       /\ recs[k].data.Expected = <<>> \/ HasSuffix(recs[k].data.Expected, <<NL>>)
       /\ recs[k].blk.sep = 0 => recs[k].data.Expected = <<>>
       /\ recs[k].blk.sep # 0 =>
            \E b \in (FirstCaptured(k) - 1)..recs[k].blk.end :
              recs[k].data.Expected = JoinLines(SubSeq(scanner.lines, FirstCaptured(k), b))

\* the single form on "a", "----", "---- ", "x ": the stream ends inside the
\* section and the first line keeps its trailing space
C34_Witness ==
  /\ pc = "run"
  /\ scanner.lines = << <<"a">>, Separator, <<"-", "-", "-", "-", " ">>, <<"x">> >>
  /\ blk.form = "single"
  /\ scanner.line = 4
  /\ data.Expected = <<"-", "-", "-", "-", " ", NL, "x", NL>>

\* ------------------------------------------- claims on a run without test case

\* C35: a run of runYAMLInternal that found no test case has reported an error
\* when it ends, whether its input is empty or not
C35_NoCaseReported ==
  (yaml.pc = "done" /\ yaml.pairs = <<>>) => yaml.log # <<>>

\* ------------------------------------------------------ claims on Whiteboard

\* the positions looked at: every position written and a margin around them
WindowLines == -2..2
WindowCols == -6..8

\* the call k of Write covers the position (line, col)
Covers(k, line, col) ==
  /\ wb.writes[k].lineIdx = line
  /\ wb.writes[k].colIdx <= col
  /\ col < wb.writes[k].colIdx + Len(wb.writes[k].s)

\* the calls of Write that cover the position
Covering(line, col) == { k \in 1..Len(wb.writes) : Covers(k, line, col) }

\* what the position has to show: the character of the last call that covers
\* it, a space when there is none
Shown(line, col) ==
  IF Covering(line, col) = {} THEN " "
  ELSE LET k == CHOOSE k \in Covering(line, col) : \A j \in Covering(line, col) : j <= k
       IN wb.writes[k].s[col - wb.writes[k].colIdx + 1]

\* what the whiteboard holds at the position: the rune of the buffer of the
\* line, a space outside the lines and outside the buffer
Held(line, col) ==
  IF line < wb.w.firstLineIdx \/ line >= wb.w.firstLineIdx + Len(wb.w.lines) THEN " "
  ELSE LET l == wb.w.lines[line - wb.w.firstLineIdx + 1]
       IN IF col < l.firstColIdx \/ col >= l.firstColIdx + Len(l.buf) THEN " "
          ELSE l.buf[col - l.firstColIdx + 1]

\* C36: after any calls of Write, with negative indexes too, every position
\* holds the character of the last Write that covers it and a space when no
\* Write covers it, so that no Write changes a position outside its span; and
\* neither Write nor Indented takes an index outside a buffer
C36_ShowsLastWrite ==
  /\ ~wb.panic
  /\ wb.pc # "panic"
  /\ \A line \in WindowLines, col \in WindowCols : Held(line, col) = Shown(line, col)

\* "bcd" at 0, "a" at 3 and "a" at -1 of line 0: the buffer grew to the right,
\* then to the left by more than was asked for, and was rendered
C36_Witness ==
  /\ wb.pc = "done"
  /\ Len(wb.writes) = 3
  /\ wb.writes[3].colIdx = -1
  /\ wb.w.lines = << [firstColIdx |-> -2, buf |-> <<" ", "a", "b", "c", "d", "a">>, nil |-> FALSE] >>

\* the lines of what Indented returned
OutLines == ScanLines(wb.out)

\* the line indexes written
WrittenLines == { wb.writes[k].lineIdx : k \in 1..Len(wb.writes) }

\* the lines of the output that hold more than spaces
TextLines == { j \in 1..Len(OutLines) : \E i \in 1..Len(OutLines[j]) : OutLines[j][i] # " " }

\* C37: what Indented returns has one line for each line index from the
\* smallest to the largest one written, and when some line holds a character
\* that is no space, the leftmost such character of all lines is at the
\* column indent: some line has exactly indent spaces before its text and no
\* line has fewer
C37_LeftAligned ==
  (wb.pc = "done" /\ wb.writes # <<>>) =>
    /\ \A a \in WrittenLines, b \in WrittenLines : Len(OutLines) >= b - a + 1
    /\ \E a \in WrittenLines, b \in WrittenLines : Len(OutLines) = b - a + 1
    /\ TextLines # {} =>
         /\ \A j \in TextLines : LeadingSpaces(OutLines[j]) >= wb.indent
         /\ \E j \in TextLines : LeadingSpaces(OutLines[j]) = wb.indent

====
